---- MODULE Spec2Model ----
(***************************************************************************)
(* A model of miteclock: the shortcut expansion and pattern matching of    *)
(* miteclock/activities.py and the entry resolution of miteclock/cli.py.   *)
(*                                                                         *)
(* Python values that can be of several types are tagged records:          *)
(*   Str(s)   a str,  Dict(items)  a dict (items in insertion order),      *)
(*   List(xs) a list, PyNone  the value None, Absent  a missing dict key.  *)
(* An Optional[int] id is an integer, with None for Python's None.         *)
(* The outcome of a call is a record: exc = "" and value = <<v>> for a     *)
(* return of v, or exc = the exception class, kind = the raise statement   *)
(* and msg = the message for a raise.                                      *)
(***************************************************************************)
EXTENDS Integers, Sequences, FiniteSets, TLC

VARIABLES
    entries,        \* find_unique: the entity list searched
    pattern_data,   \* find_unique / Pattern.parse: the pattern definition
    pattern,        \* outcome of Pattern.parse(pattern_data)
    matches,        \* outcome of pattern.matches(e) for each e of entries
    found,          \* outcome of find_unique(entries, "projects", pattern_data)
    shortcuts,      \* the shortcut table of the settings
    projects,       \* the projects fetched from mite
    services,       \* the services fetched from mite
    expanded,       \* the last call of _expand: its key and its outcome
    activity,       \* the activity given to to_time_entry_spec
    spec,           \* outcome of to_time_entry_spec
    calls,          \* the calls of _expand and find_unique it made, in order
    time_entries,   \* the time entries of today on the mite server
    entries_today,  \* the entries fetched for the last call of _idempotent_entry
    history,        \* the calls of _idempotent_entry so far: spec, outcome, posts
    validated,      \* outcome of validate_shortcuts(shortcuts)
    tracker,        \* the id of the entry the server's tracker runs for, or None
    tracking_before,\* what the tracker ran for when `start` was invoked
    pc,             \* where the invocation of `start` stands
    last,           \* the -l flag of the invocation
    stdin,          \* the lines typed at the prompts of the invocation
    start_entry,    \* outcome of the choice of the entry that `start` makes
    exit_code,      \* the exit status of the invocation, None while it runs
    requests,       \* the requests the invocation made of the server, in order
    expand_calls,   \* the calls of _expand that the last expansion made, in order
    key_chars,      \* build_menu: the characters of the menu keys
    menu_entries,   \* build_menu: the entries to put on the menu
    built_menu,     \* outcome of build_menu(key_chars, menu_entries)
    selected,       \* outcome of _select_an_entry at the menu
    status_entries, \* report_status: the parsed entries of today
    full,           \* report_status: the --full flag
    report          \* outcome of report_status(status_entries, full)

findVars == <<entries, pattern_data, pattern, matches, found>>
activityVars == <<shortcuts, projects, services, expanded, activity, spec, calls>>
entryVars == <<time_entries, entries_today, history>>
validateVars == <<validated>>
startVars == <<tracker, tracking_before, pc, last, stdin, start_entry, exit_code, requests>>
traceVars == <<expand_calls>>
menuVars == <<key_chars, menu_entries, built_menu, selected>>
statusVars == <<status_entries, full, report>>
vars == <<findVars, activityVars, entryVars, validateVars, startVars, traceVars, menuVars,
          statusVars>>

----------------------------------------------------------------------------
(* Python values *)

Str(s) == [t |-> "str", v |-> s]
Dict(items) == [t |-> "dict", v |-> items]
List(xs) == [t |-> "list", v |-> xs]
PyNone == [t |-> "none"]
Absent == [t |-> "absent"]
None == -1

Item(k, val) == [k |-> k, v |-> val]

\* k in d
Has(d, k) == \E i \in 1..Len(d.v) : d.v[i].k = k

\* d[k]
Get(d, k) == d.v[CHOOSE i \in 1..Len(d.v) : d.v[i].k = k].v

\* d.get(k, default)
GetDefault(d, k, default) == IF Has(d, k) THEN Get(d, k) ELSE default

\* outcomes of a call
NotCalled == [exc |-> "not called", kind |-> "", msg |-> "", value |-> <<>>]
Return(v) == [exc |-> "", kind |-> "", msg |-> "", value |-> <<v>>]
Raise(exc, kind, msg) == [exc |-> exc, kind |-> kind, msg |-> msg, value |-> <<>>]
Returned(r) == r.exc = ""
Raised(r) == r.exc \notin {"", "not called"}
Value(r) == r.value[1]

\* sub in s, for two str
Contains(s, sub) ==
    \E i \in 0..(Len(s) - Len(sub)) : SubSeq(s, i + 1, i + Len(sub)) = sub

\* sep.join(xs)
RECURSIVE Join(_, _)
Join(xs, sep) ==
    IF Len(xs) = 0 THEN ""
    ELSE IF Len(xs) = 1 THEN xs[1]
    ELSE xs[1] \o sep \o Join(Tail(xs), sep)

----------------------------------------------------------------------------
(* activities.py: patterns *)

SubstringMatch(fieldname, pat) ==
    [cls |-> "SubstringMatch", fieldname |-> fieldname, pattern |-> pat]
StrictMatch(fieldname, pat) ==
    [cls |-> "StrictMatch", fieldname |-> fieldname, pattern |-> pat]
\* a conjunction that forgets every predicate but the first
AndFirstOnly(predicates) == [cls |-> "And", predicates |-> <<predicates[1]>>]
And(predicates) == [cls |-> "And", predicates |-> predicates]

\* entry[fieldname]: entities always carry name and id; customer_name may be
\* a str, None, or missing.
Field(entry, fieldname) ==
    IF fieldname = "name" THEN Str(entry.name) ELSE entry.customer_name

\* StrictMatch.__call__ and SubstringMatch.__call__
CallSimple(pred, entry) ==
    LET val == Field(entry, pred.fieldname) IN
    IF val = Absent THEN Raise("KeyError", "field", pred.fieldname)
    ELSE IF pred.cls = "StrictMatch"
    THEN Return(val.t = "str" /\ val.v = pred.pattern)
    ELSE IF val.t = "str" THEN Return(Contains(val.v, pred.pattern))
    ELSE Raise("TypeError", "in", "argument of type 'NoneType' is not iterable")

\* all(pred(entry) for pred in preds): left to right, stops at the first False
\* and lets the first exception through.
RECURSIVE AllOf(_, _)
AllOf(preds, entry) ==
    IF Len(preds) = 0 THEN Return(TRUE)
    ELSE LET r == CallSimple(preds[1], entry) IN
         IF Raised(r) THEN r
         ELSE IF ~Value(r) THEN Return(FALSE)
         ELSE AllOf(Tail(preds), entry)

\* MatchingPredicate.__call__
Call(pred, entry) ==
    IF pred.cls = "And" THEN AllOf(pred.predicates, entry)
    ELSE CallSimple(pred, entry)

\* tomlkit's rendering of one inline table whose values are all str
TomlFlat(d) ==
    "{" \o Join([i \in 1..Len(d.v) |->
                    d.v[i].k \o " = \"" \o d.v[i].v.v \o "\""], ", ") \o "}"

\* the place of a key in the order pattern, match, project, client
KeyRank(k) ==
    IF k = "pattern" THEN 1 ELSE IF k = "match" THEN 2
    ELSE IF k = "project" THEN 3 ELSE IF k = "client" THEN 4 ELSE 5

\* the items of a table sorted by KeyRank, nested tables sorted as well
Canonical(d) ==
    LET sorted(items) ==
            CHOOSE q \in [1..Len(items) -> 1..Len(items)] :
                /\ \A i, j \in 1..Len(items) : i # j => q[i] # q[j]
                /\ \A i, j \in 1..Len(items) :
                       i < j => KeyRank(items[q[i]].k) <= KeyRank(items[q[j]].k)
        inner(x) == IF x.t = "dict"
                    THEN Dict([i \in 1..Len(x.v) |-> x.v[sorted(x.v)[i]]])
                    ELSE x
    IN Dict([i \in 1..Len(d.v) |->
                Item(d.v[sorted(d.v)[i]].k, inner(d.v[sorted(d.v)[i]].v))])

\* a rendering that sorts the keys before it writes them
_as_toml_sorted(pattern_data_) ==
    LET d == Canonical(pattern_data_) IN
    "{" \o Join([i \in 1..Len(d.v) |->
                    LET it == d.v[i] IN
                    it.k \o " = " \o
                    (IF it.v.t = "str" THEN "\"" \o it.v.v \o "\""
                     ELSE TomlFlat(it.v))], ", ") \o "}"

_as_toml(pattern_data_) ==
    "{" \o Join([i \in 1..Len(pattern_data_.v) |->
                    LET it == pattern_data_.v[i] IN
                    it.k \o " = " \o
                    (IF it.v.t = "str" THEN "\"" \o it.v.v \o "\""
                     ELSE TomlFlat(it.v))], ", ") \o "}"

\* a parse whose test of the match value is the wrong way round
_parse_simple_inverted(pattern_data_, fieldname) ==
    IF pattern_data_.t = "str"
    THEN Return(SubstringMatch(fieldname, pattern_data_.v))
    ELSE IF ~Has(pattern_data_, "pattern")
    THEN Raise("ValueError", "pattern required", "'pattern' key is required.")
    ELSE IF GetDefault(pattern_data_, "match", Str("substring")) # Str("substring")
    THEN Return(SubstringMatch(fieldname, Get(pattern_data_, "pattern").v))
    ELSE Return(StrictMatch(fieldname, Get(pattern_data_, "pattern").v))

_parse_simple(pattern_data_, fieldname) ==
    IF pattern_data_.t = "str"
    THEN Return(SubstringMatch(fieldname, pattern_data_.v))
    ELSE IF ~Has(pattern_data_, "pattern")
    THEN Raise("ValueError", "pattern required", "'pattern' key is required.")
    ELSE IF GetDefault(pattern_data_, "match", Str("substring")) = Str("substring")
    THEN Return(SubstringMatch(fieldname, Get(pattern_data_, "pattern").v))
    ELSE Return(StrictMatch(fieldname, Get(pattern_data_, "pattern").v))

\* Pattern(matches, definition)
Pattern(m, definition) == [matches |-> m, definition |-> definition]

Pattern_parse(pattern_data_) ==
    IF pattern_data_.t = "str"
    THEN Return(Pattern(Value(_parse_simple(pattern_data_, "name")), pattern_data_.v))
    ELSE
    LET definition == _as_toml(pattern_data_) IN
    IF Has(pattern_data_, "project")
    THEN LET p == _parse_simple(Get(pattern_data_, "project"), "name") IN
         IF Has(pattern_data_, "client")
         THEN LET c == _parse_simple(Get(pattern_data_, "client"), "customer_name") IN
              IF Raised(p) THEN p
              ELSE IF Raised(c) THEN c
              ELSE Return(Pattern(And(<<Value(p), Value(c)>>), definition))
         ELSE IF Raised(p) THEN p
              ELSE Return(Pattern(Value(p), definition))
    ELSE IF Has(pattern_data_, "client")
    THEN Raise("ValueError", "client only",
               "Problem parsing this definition: " \o definition \o ". "
               \o "Cannot filter by client only, please include a 'project' key.")
    ELSE LET s == _parse_simple(pattern_data_, "name") IN
         IF Raised(s) THEN s ELSE Return(Pattern(Value(s), definition))

\* [e for e in entries if pattern.matches(e)]: in the order of entries; the
\* first exception of a predicate ends the comprehension.
RECURSIVE Matched(_, _)
Matched(pred, entries_) ==
    IF Len(entries_) = 0 THEN Return(<<>>)
    ELSE LET r == Call(pred, Head(entries_)) IN
         IF Raised(r) THEN r
         ELSE LET rest == Matched(pred, Tail(entries_)) IN
              IF Raised(rest) THEN rest
              ELSE IF Value(r) THEN Return(<<Head(entries_)>> \o Value(rest))
              ELSE rest

find_unique(entries_, entry_type, pattern_data_) ==
    LET parsed == Pattern_parse(pattern_data_) IN
    IF Raised(parsed) THEN parsed
    ELSE
    LET pattern_ == Value(parsed)
        m == Matched(pattern_.matches, entries_)
    IN
    IF Raised(m) THEN m
    ELSE
    LET matched == Value(m) IN
    IF Len(matched) = 0
    THEN Raise("ValueError", "no match",
               "'" \o pattern_.definition \o "' did not match any "
               \o entry_type \o ".\n")
    ELSE IF Len(matched) > 1
    THEN Raise("ValueError", "ambiguous",
               "'" \o pattern_.definition \o "' matched the following multiple "
               \o entry_type \o ":\n"
               \o Join([i \in 1..Len(matched) |-> matched[i].name], "\n")
               \o "\n\n"
               \o "Please provide an unambiguous pattern.")
    ELSE Return(matched[1])

----------------------------------------------------------------------------
(* activities.py: shortcut expansion and to_time_entry_spec *)

\* key in breadcrumbs
InList(key, xs) == \E i \in 1..Len(xs) : xs[i] = key

\* an expansion that puts the expansion of the later keys first
RECURSIVE ExpandEachReversed(_, _, _)
ExpandEachReversed(keys, shortcuts_, breadcrumbs) ==
    IF Len(keys) = 0 THEN Return(<<>>)
    ELSE
    LET key == Head(keys)
        r == IF InList(key, breadcrumbs)
             THEN Raise("ValueError", "cycle", "")
             ELSE IF key.t = "dict" \/ ~Has(shortcuts_, key.v)
             THEN Return(<<key>>)
             ELSE LET expansion == Get(shortcuts_, key.v)
                      expansions == IF expansion.t = "list" THEN expansion.v
                                    ELSE <<expansion>>
                  IN ExpandEachReversed(expansions, shortcuts_, breadcrumbs \o <<key>>)
    IN
    IF Raised(r) THEN r
    ELSE LET rest == ExpandEachReversed(Tail(keys), shortcuts_, breadcrumbs) IN
         IF Raised(rest) THEN rest
         ELSE Return(Value(rest) \o Value(r))

\* _expand applied to each key of a list in turn, the results concatenated:
\* the body of _expand for the first key, whose loop
\*     for sk in expansions: next_level += _expand(sk, shortcuts, breadcrumbs + [key])
\* is this operator again, then the remaining keys.
RECURSIVE ExpandEach(_, _, _)
ExpandEach(keys, shortcuts_, breadcrumbs) ==
    IF Len(keys) = 0 THEN Return(<<>>)
    ELSE
    LET key == Head(keys)
        r == IF InList(key, breadcrumbs)
             THEN LET cyclic_path ==
                          Join([i \in 1..Len(breadcrumbs) |-> breadcrumbs[i].v], " -> ")
                  IN Raise("ValueError", "cycle",
                           "Detected a cycle when expanding key '" \o key.v \o "': "
                           \o cyclic_path \o "\n" \o "Please check your shortcuts.")
             ELSE IF key.t = "dict" \/ ~Has(shortcuts_, key.v)
             THEN Return(<<key>>)
             ELSE LET expansion == Get(shortcuts_, key.v)
                      expansions == IF expansion.t = "list" THEN expansion.v
                                    ELSE <<expansion>>
                  IN ExpandEach(expansions, shortcuts_, breadcrumbs \o <<key>>)
    IN
    IF Raised(r) THEN r
    ELSE LET rest == ExpandEach(Tail(keys), shortcuts_, breadcrumbs) IN
         IF Raised(rest) THEN rest
         ELSE Return(Value(r) \o Value(rest))

\* _expand(key, shortcuts, breadcrumbs)
_expand(key, shortcuts_, breadcrumbs) == ExpandEach(<<key>>, shortcuts_, breadcrumbs)

\* a call of _expand: its key and the breadcrumbs it was given
ExpandCall(key, breadcrumbs) == [key |-> key, breadcrumbs |-> breadcrumbs]

\* a recursion that looks for the key among the breadcrumbs before its parent
RECURSIVE ExpandCallsLateCheck(_, _, _)
ExpandCallsLateCheck(keys, shortcuts_, breadcrumbs) ==
    IF Len(keys) = 0 THEN [calls |-> <<>>, raised |-> FALSE]
    ELSE
    LET key == Head(keys)
        call == <<ExpandCall(key, breadcrumbs)>>
        r == IF Len(breadcrumbs) > 0
                /\ InList(key, SubSeq(breadcrumbs, 1, Len(breadcrumbs) - 1))
             THEN [calls |-> call, raised |-> TRUE]
             ELSE IF key.t = "dict" \/ ~Has(shortcuts_, key.v)
             THEN [calls |-> call, raised |-> FALSE]
             ELSE LET expansion == Get(shortcuts_, key.v)
                      expansions == IF expansion.t = "list" THEN expansion.v
                                    ELSE <<expansion>>
                      below == ExpandCallsLateCheck(expansions, shortcuts_,
                                                    breadcrumbs \o <<key>>)
                  IN [calls |-> call \o below.calls, raised |-> below.raised]
    IN
    IF r.raised THEN r
    ELSE LET rest == ExpandCallsLateCheck(Tail(keys), shortcuts_, breadcrumbs) IN
         [calls |-> r.calls \o rest.calls, raised |-> rest.raised]

\* a recursion whose calls all append to one list of breadcrumbs
\* (breadcrumbs.append(key) in place of breadcrumbs + [key])
RECURSIVE ExpandCallsShared(_, _, _)
ExpandCallsShared(keys, shortcuts_, breadcrumbs) ==
    IF Len(keys) = 0 THEN [calls |-> <<>>, raised |-> FALSE, appended |-> breadcrumbs]
    ELSE
    LET key == Head(keys)
        call == <<ExpandCall(key, breadcrumbs)>>
        r == IF InList(key, breadcrumbs)
             THEN [calls |-> call, raised |-> TRUE, appended |-> breadcrumbs]
             ELSE IF key.t = "dict" \/ ~Has(shortcuts_, key.v)
             THEN [calls |-> call, raised |-> FALSE, appended |-> breadcrumbs]
             ELSE LET expansion == Get(shortcuts_, key.v)
                      expansions == IF expansion.t = "list" THEN expansion.v
                                    ELSE <<expansion>>
                      below == ExpandCallsShared(expansions, shortcuts_,
                                                 breadcrumbs \o <<key>>)
                  IN [calls |-> call \o below.calls, raised |-> below.raised,
                      appended |-> below.appended]
    IN
    IF r.raised THEN r
    ELSE LET rest == ExpandCallsShared(Tail(keys), shortcuts_, r.appended) IN
         [calls |-> r.calls \o rest.calls, raised |-> rest.raised,
          appended |-> rest.appended]

\* the calls of _expand that ExpandEach makes, in the order they are made:
\* the call for the first key, the calls of its loop
\*     for sk in expansions: next_level += _expand(sk, shortcuts, breadcrumbs + [key])
\* and, unless one of them raised, the calls for the remaining keys
RECURSIVE ExpandCalls(_, _, _)
ExpandCalls(keys, shortcuts_, breadcrumbs) ==
    IF Len(keys) = 0 THEN [calls |-> <<>>, raised |-> FALSE]
    ELSE
    LET key == Head(keys)
        call == <<ExpandCall(key, breadcrumbs)>>
        r == IF InList(key, breadcrumbs)
             THEN [calls |-> call, raised |-> TRUE]
             ELSE IF key.t = "dict" \/ ~Has(shortcuts_, key.v)
             THEN [calls |-> call, raised |-> FALSE]
             ELSE LET expansion == Get(shortcuts_, key.v)
                      expansions == IF expansion.t = "list" THEN expansion.v
                                    ELSE <<expansion>>
                      below == ExpandCalls(expansions, shortcuts_, breadcrumbs \o <<key>>)
                  IN [calls |-> call \o below.calls, raised |-> below.raised]
    IN
    IF r.raised THEN r
    ELSE LET rest == ExpandCalls(Tail(keys), shortcuts_, breadcrumbs) IN
         [calls |-> r.calls \o rest.calls, raised |-> rest.raised]

\* repr(x) for a str without quotes or a dict of str
Repr(x) ==
    IF x.t = "str" THEN "'" \o x.v \o "'"
    ELSE "{" \o Join([i \in 1..Len(x.v) |->
                         "'" \o x.v[i].k \o "': '" \o x.v[i].v.v \o "'"], ", ") \o "}"

\* repr(xs) for a list
ReprList(xs) == "[" \o Join([i \in 1..Len(xs) |-> Repr(xs[i])], ", ") \o "]"

\* a call made by to_time_entry_spec
CallOf(fn, entry_type, arg) == [fn |-> fn, entry_type |-> entry_type, arg |-> arg]

\* values = []; for key in activity: values += _expand(key, shortcuts)
RECURSIVE ExpandActivity(_, _)
ExpandActivity(activity_, shortcuts_) ==
    IF Len(activity_) = 0 THEN [out |-> Return(<<>>), calls |-> <<>>]
    ELSE LET r == _expand(Head(activity_), shortcuts_, <<>>)
             call == <<CallOf("_expand", "", Head(activity_))>>
         IN IF Raised(r) THEN [out |-> r, calls |-> call]
            ELSE LET rest == ExpandActivity(Tail(activity_), shortcuts_) IN
                 [out |-> IF Raised(rest.out) THEN rest.out
                          ELSE Return(Value(r) \o Value(rest.out)),
                  calls |-> call \o rest.calls]

\* a resolution that hands the empty pattern to find_unique like any other
MatchingIdAlways(entities, entry_type, pattern_) ==
    LET f == find_unique(entities, entry_type, pattern_) IN
    [out |-> IF Raised(f) THEN f ELSE Return(Value(f).id),
     calls |-> <<CallOf("find_unique", entry_type, pattern_)>>]

\* None if pattern == "" else find_unique(entities, entry_type, pattern)["id"]
MatchingId(entities, entry_type, pattern_) ==
    IF pattern_ = Str("") THEN [out |-> Return(None), calls |-> <<>>]
    ELSE LET f == find_unique(entities, entry_type, pattern_) IN
         [out |-> IF Raised(f) THEN f ELSE Return(Value(f).id),
          calls |-> <<CallOf("find_unique", entry_type, pattern_)>>]

\* to_time_entry_spec is modelled in the order of its statements, one operator
\* per stage; each yields the outcome (out) and the calls made so far (calls).

\* return {"project_id": ..., "service_id": ..., "note": note}
SpecOf(matching_project, matching_service, note, calls_) ==
    IF Raised(matching_service.out)
    THEN [out |-> matching_service.out,
          calls |-> calls_ \o matching_project.calls \o matching_service.calls]
    ELSE [out |-> Return([project_id |-> Value(matching_project.out),
                          service_id |-> Value(matching_service.out),
                          note |-> note]),
          calls |-> calls_ \o matching_project.calls \o matching_service.calls]

\* matching_service = ..., after matching_project
ResolveService(matching_project, values, calls_, services_) ==
    IF Raised(matching_project.out)
    THEN [out |-> matching_project.out, calls |-> calls_ \o matching_project.calls]
    ELSE SpecOf(matching_project,
                MatchingId(services_, "services", values[2]),
                values[3], calls_)

\* a shape check that lets more than 3 values through
ResolveValuesAtLeast3(values, calls_, projects_, services_) ==
    IF Len(values) < 3
    THEN [out |-> Raise("ValueError", "shape", ""), calls |-> calls_]
    ELSE ResolveService(MatchingId(projects_, "projects", values[1]),
                        values, calls_, services_)

\* if len(values) != 3: raise ...; proj_pattern, service_pattern, note = values
ResolveValues(values, calls_, projects_, services_) ==
    IF Len(values) # 3
    THEN [out |-> Raise("ValueError", "shape",
                        "Cannot interpret the result of expanding your input: "
                        \o ReprList(values) \o ",\n"
                        \o "The result should have the following items "
                        \o "(order matters!): project, service, note (optional)."),
          calls |-> calls_]
    ELSE ResolveService(MatchingId(projects_, "projects", values[1]),
                        values, calls_, services_)

\* no padding of two values
PadNoteNever(values) == values

\* if len(values) == 2: values += [""]
PadNote(values) == IF Len(values) = 2 THEN values \o <<Str("")>> ELSE values

\* the statements after the expansion loop
Interpret(e, projects_, services_) ==
    IF Raised(e.out) THEN e
    ELSE ResolveValues(PadNote(Value(e.out)), e.calls, projects_, services_)

\* no check of the number of tokens before the expansion
to_time_entry_spec_unchecked(activity_, shortcuts_, projects_, services_) ==
    Interpret(ExpandActivity(activity_, shortcuts_), projects_, services_)

to_time_entry_spec(activity_, shortcuts_, projects_, services_) ==
    IF Len(activity_) = 0
    THEN [out |-> Raise("AssertionError", "assert activity", ""), calls |-> <<>>]
    ELSE IF Len(activity_) > 3
    THEN [out |-> Raise("ValueError", "too long",
                        "Activity definition too long, please enter at most 3 items."),
          calls |-> <<>>]
    ELSE Interpret(ExpandActivity(activity_, shortcuts_), projects_, services_)

----------------------------------------------------------------------------
(* cli.py: EntrySpec and _idempotent_entry, with the server of the tests *)

Whitespace == {" ", "\t", "\n", "\r"}

RECURSIVE lstrip(_)
lstrip(s) ==
    IF Len(s) > 0 /\ SubSeq(s, 1, 1) \in Whitespace
    THEN lstrip(SubSeq(s, 2, Len(s))) ELSE s

RECURSIVE rstrip(_)
rstrip(s) ==
    IF Len(s) > 0 /\ SubSeq(s, Len(s), Len(s)) \in Whitespace
    THEN rstrip(SubSeq(s, 1, Len(s) - 1)) ELSE s

\* str.strip
strip(s) == rstrip(lstrip(s))

\* an EntrySpec that keeps the note as it is given
EntrySpecUnstripped(project_id, service_id, note) ==
    IF note.t # "str"
    THEN Raise("TypeError", "strip", "descriptor 'strip' requires a 'str' object")
    ELSE Return([project_id |-> project_id, service_id |-> service_id,
                 note |-> note.v])

\* EntrySpec(project_id, service_id, note): the note goes through str.strip
EntrySpec(project_id, service_id, note) ==
    IF note.t # "str"
    THEN Raise("TypeError", "strip", "descriptor 'strip' requires a 'str' object")
    ELSE Return([project_id |-> project_id, service_id |-> service_id,
                 note |-> strip(note.v)])

\* a key of an entry of today that keeps the note as the server holds it
SpecOfEntryUntrimmed(e) ==
    [project_id |-> e.project_id, service_id |-> e.service_id, note |-> e.note]

\* EntrySpec(e["project_id"], e["service_id"], e["note"]) of an entry of today
SpecOfEntry(e) == Value(EntrySpec(e.project_id, e.service_id, Str(e.note)))

Max(S) == CHOOSE x \in S : \A y \in S : y <= x

\* FakeApi.post("time_entries", data=json.dumps({"time_entry": payload})):
\* the entry gets the next id, is appended to the server's list and returned
FakeApi_post(server, payload) ==
    LET new_id == Max({server[i].id : i \in 1..Len(server)} \cup {-1}) + 1
        new_entry == [id |-> new_id, project_id |-> payload.project_id,
                      service_id |-> payload.service_id, note |-> payload.note]
    IN [server |-> Append(server, new_entry), response |-> new_entry]

\* existing_specs[entry]: a dict comprehension keeps the last entry of a key
LastWith(entries_, key) ==
    entries_[Max({i \in 1..Len(entries_) : SpecOfEntry(entries_[i]) = key})]

\* the lookup and the post of _idempotent_entry, entry being the EntrySpec of
\* the call; yields the outcome, the payloads posted and the server's entries
LookupOrPostAlways(entries_, entry, server) ==
    LET r == FakeApi_post(server, entry) IN
    [out |-> Return(r.response), posts |-> <<entry>>, server |-> r.server]

\* a creation that is sent a second time
LookupOrPostTwice(entries_, entry, server) ==
    IF \E i \in 1..Len(entries_) : SpecOfEntry(entries_[i]) = entry
    THEN [out |-> Return(LastWith(entries_, entry)), posts |-> <<>>, server |-> server]
    ELSE LET r == FakeApi_post(FakeApi_post(server, entry).server, entry) IN
         [out |-> Return(r.response), posts |-> <<entry, entry>>, server |-> r.server]

LookupOrPost(entries_, entry, server) ==
    IF \E i \in 1..Len(entries_) : SpecOfEntry(entries_[i]) = entry
    THEN [out |-> Return(LastWith(entries_, entry)), posts |-> <<>>, server |-> server]
    ELSE LET r == FakeApi_post(server, entry) IN
         [out |-> Return(r.response), posts |-> <<entry>>, server |-> r.server]

\* a resolver that posts the spec it was given instead of asdict(entry)
idempotent_entry_posting_spec(entries_, entry_spec, server) ==
    LET entry == EntrySpec(entry_spec.project_id, entry_spec.service_id,
                           entry_spec.note)
    IN IF Raised(entry) THEN [out |-> entry, posts |-> <<>>, server |-> server]
       ELSE IF \E i \in 1..Len(entries_) : SpecOfEntry(entries_[i]) = Value(entry)
       THEN LookupOrPost(entries_, Value(entry), server)
       ELSE LookupOrPost(entries_,
                         [Value(entry) EXCEPT !.note = entry_spec.note.v], server)

_idempotent_entry(entries_, entry_spec, server) ==
    LET entry == EntrySpec(entry_spec.project_id, entry_spec.service_id,
                           entry_spec.note)
    IN IF Raised(entry) THEN [out |-> entry, posts |-> <<>>, server |-> server]
       ELSE LookupOrPost(entries_, Value(entry), server)

----------------------------------------------------------------------------
(* The variables of the calls that a specification does not make *)

\* validate_shortcuts is not called
NothingValidated == validated = NotCalled

\* `start` is not invoked
NothingStarted ==
    /\ tracker = None
    /\ tracking_before = None
    /\ pc = "idle"
    /\ last = FALSE
    /\ stdin = <<>>
    /\ start_entry = NotCalled
    /\ exit_code = None
    /\ requests = <<>>

\* _expand is not traced
NothingTraced == expand_calls = <<>>

\* build_menu is not called
NothingBuilt ==
    /\ key_chars = ""
    /\ menu_entries = <<>>
    /\ built_menu = NotCalled
    /\ selected = NotCalled

\* report_status is not called
NothingReported ==
    /\ status_entries = <<>>
    /\ full = FALSE
    /\ report = NotCalled

----------------------------------------------------------------------------
(* The entities and pattern definitions the calls are made with *)

MaxEntries == 2

Names == {"Dev", "DevOps", "QA"}
CustomerNames == {Absent, PyNone, Str("ZDF"), Str("ZDF2")}

\* the entity at position i of a list fetched from mite; ids are distinct
Entities(i) ==
    [id : {i - 1}, name : Names, customer_name : CustomerNames]

EntityLists ==
    UNION {{l \in [1..n -> UNION {Entities(i) : i \in 1..n}] :
               \A i \in 1..n : l[i] \in Entities(i)} : n \in 0..MaxEntries}

PatternStrings == {"Dev", "dev", "QA", "ZDF"}
MatchValues == {"substring", "strict"}

\* a str or a {pattern, match} table, the keys in either order
SimplePatterns ==
    {Str(s) : s \in PatternStrings}
    \cup {Dict(<<Item("pattern", Str(s))>>) : s \in {"Dev", "ZDF"}}
    \cup {Dict(<<Item("pattern", Str(s)), Item("match", Str(m))>>) :
             s \in {"Dev", "ZDF"}, m \in MatchValues}
    \cup {Dict(<<Item("match", Str("strict")), Item("pattern", Str("QA"))>>)}

\* tables that Pattern.parse rejects
MalformedPatterns ==
    {Dict(<<Item("match", Str("strict"))>>),
     Dict(<<Item("client", Str("ZDF"))>>),
     Dict(<<Item("client", Str("ZDF")), Item("pattern", Str("Dev"))>>),
     Dict(<<Item("project", Dict(<<Item("project", Str("Dev"))>>))>>),
     Dict(<<Item("project", Str("Dev")),
            Item("client", Dict(<<Item("match", Str("strict"))>>))>>)}

ProjectParts == {Str("Dev"), Dict(<<Item("pattern", Str("Dev")), Item("match", Str("strict"))>>)}
ClientParts == {Str("ZDF"), Dict(<<Item("pattern", Str("ZDF")), Item("match", Str("strict"))>>)}

CompoundPatterns ==
    {Dict(<<Item("project", p)>>) : p \in ProjectParts}
    \cup {Dict(<<Item("project", p), Item("client", c)>>) :
             p \in ProjectParts, c \in ClientParts}
    \cup {Dict(<<Item("client", Str("ZDF")), Item("project", Str("Dev"))>>)}

\* tables whose match value is neither "substring" nor "strict"
UnrecognisedMatchPatterns ==
    {Dict(<<Item("pattern", Str("Dev")), Item("match", Str("exact"))>>),
     Dict(<<Item("project", Dict(<<Item("pattern", Str("Dev")),
                                   Item("match", Str("Strict"))>>))>>)}

\* the tables of test_match_client_and_project: a customer key beside project
CustomerKeyPatterns ==
    {Dict(<<Item("project", Str("Dev")), Item("customer", c)>>) : c \in ClientParts}

PatternData ==
    SimplePatterns \cup CompoundPatterns \cup MalformedPatterns
    \cup UnrecognisedMatchPatterns \cup CustomerKeyPatterns

----------------------------------------------------------------------------
(* Calls of Pattern.parse, pattern.matches and find_unique *)

InitFind ==
    /\ entries \in EntityLists
    /\ pattern_data \in PatternData
    /\ pattern = NotCalled
    /\ matches = <<>>
    /\ found = NotCalled
    /\ shortcuts = Dict(<<>>)
    /\ projects = <<>>
    /\ services = <<>>
    /\ expanded = [key |-> Str(""), out |-> NotCalled]
    /\ activity = <<>>
    /\ spec = NotCalled
    /\ calls = <<>>
    /\ time_entries = <<>>
    /\ entries_today = <<>>
    /\ history = <<>>
    /\ NothingValidated
    /\ NothingStarted
    /\ NothingTraced
    /\ NothingBuilt
    /\ NothingReported

\* pattern = Pattern.parse(pattern_data)
Parse ==
    /\ pattern = NotCalled
    /\ pattern' = Pattern_parse(pattern_data)
    /\ UNCHANGED <<entries, pattern_data, matches, found, activityVars, entryVars, validateVars, startVars, traceVars, menuVars,
                 statusVars>>

\* pattern.matches(e) for every e of entries
Match ==
    /\ Returned(pattern)
    /\ matches = <<>>
    /\ entries # <<>>
    /\ matches' = [i \in 1..Len(entries) |-> Call(Value(pattern).matches, entries[i])]
    /\ UNCHANGED <<entries, pattern_data, pattern, found, activityVars, entryVars, validateVars, startVars, traceVars, menuVars,
                 statusVars>>

\* found = find_unique(entries, "projects", pattern_data)
FindUnique ==
    /\ found = NotCalled
    /\ found' = find_unique(entries, "projects", pattern_data)
    /\ UNCHANGED <<entries, pattern_data, pattern, matches, activityVars, entryVars, validateVars, startVars, traceVars, menuVars,
                 statusVars>>

NextFind == Parse \/ Match \/ FindUnique

SpecFind == InitFind /\ [][NextFind]_vars

----------------------------------------------------------------------------
(* Properties of find_unique and Pattern.parse *)

\* the entities of the list for which the compiled predicate returns True
Satisfying ==
    {i \in 1..Len(entries) :
        LET r == Call(Value(Pattern_parse(pattern_data)).matches, entries[i])
        IN Returned(r) /\ Value(r)}

\* C1: for every entity list and every pattern that Pattern.parse accepts,
\* find_unique returns the entity that satisfies the predicate when exactly
\* one does, raises the no-match error when none does and the ambiguous-match
\* error when several do, and never returns an entity that does not satisfy
\* the predicate.
C1_FindUniqueContract ==
    (found # NotCalled /\ Returned(Pattern_parse(pattern_data))) =>
        /\ Cardinality(Satisfying) = 1 =>
              /\ Returned(found)
              /\ \E i \in Satisfying : Value(found) = entries[i]
        /\ Cardinality(Satisfying) = 0 =>
              found.exc = "ValueError" /\ found.kind = "no match"
        /\ Cardinality(Satisfying) > 1 =>
              found.exc = "ValueError" /\ found.kind = "ambiguous"

\* what the claim C2 calls "sub matches the field value": a bare string or a
\* record without a match key is a substring match, a strict record an equality
SubPatternMatches(sub, val) ==
    /\ val.t = "str"
    /\ IF sub.t = "str" THEN Contains(val.v, sub.v)
       ELSE IF Has(sub, "match") /\ Get(sub, "match") = Str("strict")
       THEN val.v = Get(sub, "pattern").v
       ELSE Contains(val.v, Get(sub, "pattern").v)

IsCompound(pd) == pd.t = "dict" /\ Has(pd, "project") /\ Has(pd, "client")

\* C2: a pattern with a project and a client key matches an entity exactly
\* when the project sub-pattern matches its name and the client sub-pattern
\* matches its customer_name; a pattern with a client key and no project key
\* is rejected by Pattern.parse.
C2_CompoundIsConjunction ==
    /\ (IsCompound(pattern_data) /\ matches # <<>>) =>
          \A i \in 1..Len(entries) :
              (Returned(matches[i]) /\ Value(matches[i]))
              <=> (/\ SubPatternMatches(Get(pattern_data, "project"),
                                        Str(entries[i].name))
                   /\ SubPatternMatches(Get(pattern_data, "client"),
                                        entries[i].customer_name))
    /\ (/\ pattern # NotCalled
        /\ pattern_data.t = "dict"
        /\ Has(pattern_data, "client")
        /\ ~Has(pattern_data, "project")) =>
          pattern.exc = "ValueError" /\ pattern.kind = "client only"

\* a compound pattern matched one entity of the list and not another whose
\* name alone matches
C2_Witness ==
    /\ IsCompound(pattern_data)
    /\ Len(matches) = 2
    /\ Returned(matches[1]) /\ Value(matches[1])
    /\ Returned(matches[2]) /\ ~Value(matches[2])
    /\ entries[1].name = entries[2].name

\* the indexes of a set of positions, in increasing order
RECURSIVE InOrder(_)
InOrder(S) ==
    IF S = {} THEN <<>>
    ELSE LET m == CHOOSE x \in S : \A y \in S : x <= y IN <<m>> \o InOrder(S \ {m})

\* the name a project is listed with: its name, followed by its customer when
\* it has one
DisplayName(e) ==
    IF e.customer_name.t = "str"
    THEN e.name \o " (Customer: " \o e.customer_name.v \o ")"
    ELSE e.name

\* C12: the message of the ambiguous-match error lists the display names of
\* the matched entities, one per line and in the order of the entity list; the
\* display name of a project with a customer ends with " (Customer: X)".
C12_AmbiguousListsDisplayNames ==
    (found.kind = "ambiguous") =>
        LET matched == InOrder(Satisfying) IN
        Contains(found.msg,
                 ":\n" \o Join([i \in 1..Len(matched) |->
                                   DisplayName(entries[matched[i]])], "\n")
                 \o "\n\n")

\* a str, or a table with a pattern key and either no match key or one of the
\* two recognised match values
IsSimple(pd) ==
    \/ pd.t = "str"
    \/ /\ pd.t = "dict"
       /\ Has(pd, "pattern") /\ ~Has(pd, "project") /\ ~Has(pd, "client")
       /\ Has(pd, "match") => Get(pd, "match") \in {Str("substring"), Str("strict")}

\* C13: a strict pattern matches an entity exactly when its name equals the
\* pattern; a bare string, a table without a match key and a substring table
\* match exactly when the pattern occurs in the name; the comparison is by
\* character, so "dev" matches neither "Dev" nor "DevOps".
C13_StrictAndSubstring ==
    (IsSimple(pattern_data) /\ matches # <<>>) =>
        \A i \in 1..Len(entries) :
            /\ Returned(matches[i])
            /\ Value(matches[i]) <=>
                   LET pat == IF pattern_data.t = "str" THEN pattern_data.v
                              ELSE Get(pattern_data, "pattern").v
                       strict == /\ pattern_data.t = "dict"
                                 /\ Has(pattern_data, "match")
                                 /\ Get(pattern_data, "match") = Str("strict")
                   IN IF strict THEN entries[i].name = pat
                      ELSE \E k \in 1..Len(entries[i].name) :
                              \E l \in k..Len(entries[i].name) :
                                  SubSeq(entries[i].name, k, l) = pat

\* a strict pattern told "Dev" from "DevOps"
C13_Witness ==
    /\ pattern_data = Dict(<<Item("pattern", Str("Dev")), Item("match", Str("strict"))>>)
    /\ Len(matches) = 2
    /\ entries[1].name = "DevOps" /\ ~Value(matches[1])
    /\ entries[2].name = "Dev" /\ Value(matches[2])

\* the match values of a table and of the tables nested in it
MatchValuesOf(pd) ==
    IF pd.t # "dict" THEN {}
    ELSE {pd.v[i].v : i \in {j \in 1..Len(pd.v) : pd.v[j].k = "match"}}
         \cup UNION {{pd.v[i].v.v[k].v :
                         k \in {j \in 1..Len(pd.v[i].v.v) : pd.v[i].v.v[j].k = "match"}} :
                     i \in {j \in 1..Len(pd.v) : pd.v[j].v.t = "dict"}}

\* C14: Pattern.parse fails with a ValueError for a table whose match value
\* is neither "substring" nor "strict"; no predicate is compiled from it.
C14_UnrecognisedMatchRejected ==
    (pattern # NotCalled
     /\ \E m \in MatchValuesOf(pattern_data) : m \notin {Str("substring"), Str("strict")}) =>
        pattern.exc = "ValueError"

\* the first place at which sub occurs in s, 0 when it does not
IndexOf(s, sub) ==
    LET at == {i \in 1..(Len(s) - Len(sub) + 1) : SubSeq(s, i, i + Len(sub) - 1) = sub}
    IN IF at = {} THEN 0 ELSE CHOOSE i \in at : \A j \in at : i <= j

\* C15 as the specification states it: the definition of a table is written
\* with the keys in the order pattern, match, project, client, whatever the
\* order they were authored in, so a table and the same table with its keys
\* sorted have the same definition.
C15_DefinitionIsCanonical ==
    (Returned(pattern) /\ pattern_data.t = "dict") =>
        Value(pattern).definition
        = Value(Pattern_parse(Canonical(pattern_data))).definition

\* C15, amended: the definition of a bare string is the string, and the
\* definition of a table is an inline table that names the keys of the table
\* in the order they were authored in, each followed by its value; a table
\* whose keys are not in the order pattern, match, project, client has another
\* definition than the same table with its keys sorted.
C15_DefinitionFollowsAuthoring ==
    Returned(pattern) =>
        LET definition == Value(pattern).definition
            items == pattern_data.v
        IN IF pattern_data.t = "str" THEN definition = pattern_data.v
           ELSE /\ SubSeq(definition, 1, 1) = "{"
                /\ SubSeq(definition, Len(definition), Len(definition)) = "}"
                /\ IndexOf(definition, items[1].k \o " = ") = 2
                /\ \A i \in 1..Len(items) :
                       /\ IndexOf(definition, items[i].k \o " = ") > 0
                       /\ items[i].v.t = "str" =>
                              Contains(definition,
                                       items[i].k \o " = \"" \o items[i].v.v \o "\"")
                /\ \A i \in 1..(Len(items) - 1) :
                       IndexOf(definition, items[i].k \o " = ")
                       < IndexOf(definition, ", " \o items[i + 1].k \o " = ")
                /\ Canonical(pattern_data) # pattern_data =>
                       definition
                       # Value(Pattern_parse(Canonical(pattern_data))).definition

\* a table authored with match before pattern keeps that order
C15_Witness ==
    /\ pattern_data = Dict(<<Item("match", Str("strict")), Item("pattern", Str("QA"))>>)
    /\ Returned(pattern)
    /\ Value(pattern).definition = "{match = \"strict\", pattern = \"QA\"}"

\* C18: when two projects have the same name and different customers, a table
\* {project: P, customer: C} selects the one project whose name contains P and
\* whose customer_name matches C.
C18_CustomerKeySelects ==
    (/\ found # NotCalled
     /\ pattern_data.t = "dict"
     /\ Has(pattern_data, "project") /\ Has(pattern_data, "customer")
     /\ Len(entries) = 2
     /\ entries[1].name = entries[2].name
     /\ entries[1].customer_name # entries[2].customer_name) =>
        \A i \in 1..2 :
            (/\ SubPatternMatches(Get(pattern_data, "project"), Str(entries[i].name))
             /\ SubPatternMatches(Get(pattern_data, "customer"), entries[i].customer_name)
             /\ ~SubPatternMatches(Get(pattern_data, "customer"),
                                   entries[3 - i].customer_name)) =>
                found = Return(entries[i])

----------------------------------------------------------------------------
(* Calls of _expand and to_time_entry_spec *)

MaxActivity == 4

ShortcutKeys == {"a", "b"}

QAStrict == Dict(<<Item("pattern", Str("QA")), Item("match", Str("strict"))>>)

\* what a key of the table can stand for: a str, a list of 1 to 3 items, a table
Expansions ==
    {Str("a"), Str("b"), Str("QA"), Str(""),
     List(<<Str("b"), Str("b")>>),
     List(<<Str("QA"), Str("a")>>),
     List(<<Str("QA"), QAStrict, Str(" n ")>>),
     QAStrict}

\* the shortcut tables over ShortcutKeys that pass validate_shortcuts
ShortcutTables ==
    {Dict(<<>>)}
    \cup {Dict(<<Item(k, x)>>) : k \in ShortcutKeys, x \in Expansions}
    \cup {Dict(<<Item("a", x), Item("b", y)>>) : x \in Expansions, y \in Expansions}

Project(id, name) == [id |-> id, name |-> name, customer_name |-> PyNone]
Service(id, name) == [id |-> id, name |-> name, customer_name |-> Absent]

SomeProjects == <<Project(0, "Dev"), Project(1, "DevOps"), Project(2, "QA")>>
SomeServices == <<Service(5, "QA"), Service(6, "Language QA"), Service(7, "Dev")>>

\* what the user can type as one item of an activity
Tokens == {Str("a"), Str("b"), Str("QA"), Str(""), Str(" n ")}

Activities ==
    UNION {[1..n -> Tokens] : n \in 0..MaxActivity}

InitActivity ==
    /\ shortcuts \in ShortcutTables
    /\ \/ projects = <<>> /\ services = <<>>
       \/ projects = SomeProjects /\ services = SomeServices
    /\ expanded = [key |-> Str(""), out |-> NotCalled]
    /\ activity = <<>>
    /\ spec = NotCalled
    /\ calls = <<>>
    /\ entries = <<>>
    /\ pattern_data = Str("")
    /\ pattern = NotCalled
    /\ matches = <<>>
    /\ found = NotCalled
    /\ time_entries = <<>>
    /\ entries_today = <<>>
    /\ history = <<>>
    /\ NothingValidated
    /\ NothingStarted
    /\ NothingTraced
    /\ NothingBuilt
    /\ NothingReported

\* _expand(key, shortcuts)
Expand ==
    /\ expanded.out = NotCalled
    /\ spec = NotCalled
    /\ \E key \in Tokens \cup {QAStrict} :
          /\ expanded' = [key |-> key, out |-> _expand(key, shortcuts, <<>>)]
          /\ expand_calls' = ExpandCalls(<<key>>, shortcuts, <<>>).calls
    /\ UNCHANGED <<shortcuts, projects, services, activity, spec, calls, findVars, entryVars,
                 validateVars, startVars, menuVars, statusVars>>

\* to_time_entry_spec(activity, shortcuts, projects, services)
ToTimeEntrySpec ==
    /\ expanded.out = NotCalled
    /\ spec = NotCalled
    /\ \E a \in Activities :
          LET r == to_time_entry_spec(a, shortcuts, projects, services) IN
          /\ activity' = a
          /\ spec' = r.out
          /\ calls' = r.calls
    /\ UNCHANGED <<shortcuts, projects, services, expanded, findVars, entryVars,
                 validateVars, startVars, traceVars, menuVars,
                 statusVars>>

NextActivity == Expand \/ ToTimeEntrySpec

SpecActivity == InitActivity /\ [][NextActivity]_vars

----------------------------------------------------------------------------
(* Properties of _expand and to_time_entry_spec *)

RECURSIVE Flatten(_)
Flatten(xss) == IF Len(xss) = 0 THEN <<>> ELSE Head(xss) \o Flatten(Tail(xss))

\* The leaf tokens below a key, read off the table depth first and left to
\* right without any cycle check: ok is FALSE when a chain of nested shortcut
\* keys is longer than the table has keys, that is when a key repeats on it.
RECURSIVE Leaves(_, _, _)
Leaves(key, table, fuel) ==
    IF key.t = "dict" \/ ~Has(table, key.v) THEN [ok |-> TRUE, leaves |-> <<key>>]
    ELSE IF fuel = 0 THEN [ok |-> FALSE, leaves |-> <<>>]
    ELSE LET x == Get(table, key.v)
             els == IF x.t = "list" THEN x.v ELSE <<x>>
             sub == [i \in 1..Len(els) |-> Leaves(els[i], table, fuel - 1)]
         IN [ok |-> \A i \in 1..Len(els) : sub[i].ok,
             leaves |-> Flatten([i \in 1..Len(els) |-> sub[i].leaves])]

LeavesOf(key) == Leaves(key, shortcuts, Len(shortcuts.v))

\* the leaves of all the tokens of the activity, in order
ActivityLeaves ==
    LET sub == [i \in 1..Len(activity) |-> LeavesOf(activity[i])] IN
    [ok |-> \A i \in 1..Len(activity) : sub[i].ok,
     leaves |-> Flatten([i \in 1..Len(activity) |-> sub[i].leaves])]

\* C3: _expand returns [key] for a dict key and for a str that is no key of
\* the table; for a key of the table whose chain of expansions revisits no
\* key it returns the leaf tokens below the key, depth first and left to
\* right; an expansion that is a dict is returned as it is.
C3_ExpandIsLeafSequence ==
    (expanded.out # NotCalled) =>
        LET key == expanded.key IN
        /\ (key.t = "dict" \/ ~Has(shortcuts, key.v)) =>
               expanded.out = Return(<<key>>)
        /\ LeavesOf(key).ok => expanded.out = Return(LeavesOf(key).leaves)
        /\ (key.t = "str" /\ Has(shortcuts, key.v)
            /\ Get(shortcuts, key.v).t = "dict") =>
               expanded.out = Return(<<Get(shortcuts, key.v)>>)

\* a key expanded through a nested list into four leaves, a dict among them
C3_Witness ==
    /\ expanded.key = Str("a")
    /\ Returned(expanded.out)
    /\ Len(Value(expanded.out)) > 3
    /\ \E i \in 1..Len(Value(expanded.out)) : Value(expanded.out)[i].t = "dict"
    /\ Value(expanded.out)[1] # Value(expanded.out)[2]

\* the chains of shortcut keys that start with the key being expanded and end
\* with a key that occurs earlier on them
CyclicChains(first) ==
    {p \in UNION {[1..n -> ShortcutKeys] : n \in 2..(Cardinality(ShortcutKeys) + 1)} :
        /\ p[1] = first
        /\ \E i \in 1..(Len(p) - 1) : p[i] = p[Len(p)]}

\* C4: when the expansion of a key revisits a key, the message of the cycle
\* error contains the chain of keys joined by " -> " and ending with the
\* repeated key ("a -> b -> a" for the table {a: "b", b: "a"} and the key a).
C4_CycleMessageNamesRepeatedKey ==
    (expanded.out.kind = "cycle") =>
        \E p \in CyclicChains(expanded.key.v) :
            Contains(expanded.out.msg, Join(p, " -> "))

\* the ids of the entities whose name the pattern selects
SelectedIds(entities, pat) ==
    {entities[i].id : i \in {j \in 1..Len(entities) :
                                SubPatternMatches(pat, Str(entities[j].name))}}

\* id is what the claims say a pattern resolves to
ResolvesTo(entities, pat, id) ==
    IF pat = Str("") THEN id = None ELSE SelectedIds(entities, pat) = {id}

FindUniqueCalls == {i \in 1..Len(calls) : calls[i].fn = "find_unique"}

\* C5: when the expansion has three values and to_time_entry_spec returns,
\* project_id and service_id are none for an empty pattern and otherwise the
\* id of the only entity the pattern matches, the note is the third value,
\* and find_unique is never called with the empty string.
C5_SpecResolvesThreeValues ==
    /\ \A i \in FindUniqueCalls : calls[i].arg # Str("")
    /\ (Returned(spec) /\ Len(ActivityLeaves.leaves) = 3) =>
          LET values == ActivityLeaves.leaves IN
          /\ ResolvesTo(projects, values[1], Value(spec).project_id)
          /\ ResolvesTo(services, values[2], Value(spec).service_id)
          /\ Value(spec).note = values[3]
          /\ Cardinality(FindUniqueCalls) =
                Cardinality({i \in 1..2 : values[i] # Str("")})

\* three values, the project empty and the service resolved by find_unique
C5_Witness ==
    /\ Returned(spec)
    /\ Len(ActivityLeaves.leaves) = 3
    /\ projects # <<>>
    /\ ActivityLeaves.leaves[1] = Str("")
    /\ Value(spec).project_id = None
    /\ Value(spec).service_id = 5
    /\ Cardinality(FindUniqueCalls) = 1

\* C6: when the expansion has exactly two values they are the project and the
\* service pattern and the note is the empty string: the call is no shape
\* error, and what it returns has the note "".
C6_TwoValuesGetEmptyNote ==
    (spec # NotCalled /\ Len(activity) \in 1..3
     /\ ActivityLeaves.ok /\ Len(ActivityLeaves.leaves) = 2) =>
        /\ spec.kind # "shape"
        /\ Returned(spec) =>
              /\ Value(spec).note = Str("")
              /\ ResolvesTo(projects, ActivityLeaves.leaves[1], Value(spec).project_id)
              /\ ResolvesTo(services, ActivityLeaves.leaves[2], Value(spec).service_id)

\* one shortcut expanded into two patterns that both resolve
C6_Witness ==
    /\ Len(activity) = 1
    /\ Len(ActivityLeaves.leaves) = 2
    /\ Returned(spec)
    /\ Value(spec).project_id = 2
    /\ Value(spec).service_id = 5
    /\ Value(spec).note = Str("")

\* C7: an empty activity fails with the assertion and an activity of more than
\* 3 tokens with the too-long error, before any call of _expand or
\* find_unique, whatever the table and the entities are.
C7_LengthCheckedFirst ==
    (spec # NotCalled) =>
        /\ Len(activity) = 0 =>
              spec.exc = "AssertionError" /\ calls = <<>>
        /\ Len(activity) > 3 =>
              spec.exc = "ValueError" /\ spec.kind = "too long" /\ calls = <<>>

\* four tokens, the first a key of a cyclic table
C7_Witness ==
    /\ Len(activity) = 4
    /\ activity[1] = Str("a")
    /\ ~LeavesOf(Str("a")).ok
    /\ projects # <<>>
    /\ spec.kind = "too long"

\* C8: for 1 to 3 tokens whose expansion succeeds with a number of values
\* other than 2 or 3, to_time_entry_spec fails with the shape error and
\* calls find_unique for neither projects nor services.
C8_ShapeError ==
    (spec # NotCalled /\ Len(activity) \in 1..3
     /\ ActivityLeaves.ok /\ Len(ActivityLeaves.leaves) \notin {2, 3}) =>
        /\ spec.exc = "ValueError" /\ spec.kind = "shape"
        /\ FindUniqueCalls = {}

\* one token of a validated table expanded to more than 3 values
C8_Witness ==
    /\ Len(activity) = 1
    /\ ActivityLeaves.ok
    /\ Len(ActivityLeaves.leaves) > 3
    /\ projects # <<>>
    /\ spec.kind = "shape"

----------------------------------------------------------------------------
(* activities.py: validate_shortcuts *)

PyInt(n) == [t |-> "int", v |-> n]
PyFloat(n) == [t |-> "float", v |-> n]

\* str(type(x))
TypeOf(x) == "<class '" \o (IF x.t = "none" THEN "NoneType" ELSE x.t) \o "'>"

\* the longest list an expansion can be
MaxExpansionLen == 3

\* _validate_shortcut_expansion(val), dispatched on the type of val
_validate_shortcut_expansion(val) ==
    IF val.t = "str" THEN Return(PyNone)
    ELSE IF val.t = "list"
    THEN IF Len(val.v) = 0
         THEN Raise("ValueError", "empty list", "List expansion cannot be empty.")
         ELSE IF Len(val.v) > MaxExpansionLen
         THEN Raise("ValueError", "long list",
                    "Shortcut expansions cannot be longer than 3 items, got "
                    \o ToString(Len(val.v)) \o ".")
         ELSE Return(PyNone)
    ELSE IF val.t = "dict" THEN Return(PyNone)
    ELSE Raise("TypeError", "unsupported",
               "Unsupported expansion type: " \o TypeOf(val) \o ".")

\* for k, v in sc.items(): try: ... except (ValueError, TypeError) as e:
\*     raise e.__class__(f"The expansion for shortcut '{k}' is invalid: {e}")
RECURSIVE ValidateItems(_)
ValidateItems(items) ==
    IF Len(items) = 0 THEN Return(PyNone)
    ELSE LET e == _validate_shortcut_expansion(items[1].v) IN
         IF Raised(e)
         THEN Raise(e.exc, e.kind,
                    "The expansion for shortcut '" \o items[1].k
                    \o "' is invalid: " \o e.msg)
         ELSE ValidateItems(Tail(items))

\* a validation that reports every invalid expansion as a ValueError
validate_shortcuts_as_ValueError(sc) ==
    IF sc.t # "dict"
    THEN Raise("TypeError", "not a mapping",
               "Shortcut definition must be a dictionary or mapping, got "
               \o TypeOf(sc) \o ".")
    ELSE LET r == ValidateItems(sc.v) IN
         IF Raised(r) THEN Raise("ValueError", r.kind, r.msg) ELSE Return(sc)

\* a validation that also rejects a table in which a key leads back to itself
validate_shortcuts_without_cycles(sc) ==
    IF sc.t # "dict"
    THEN Raise("TypeError", "not a mapping",
               "Shortcut definition must be a dictionary or mapping, got "
               \o TypeOf(sc) \o ".")
    ELSE LET r == ValidateItems(sc.v) IN
         IF Raised(r) THEN r
         ELSE IF \E i \in 1..Len(sc.v) : ~Leaves(Str(sc.v[i].k), sc, Len(sc.v)).ok
         THEN Raise("ValueError", "cycle", "")
         ELSE Return(sc)

validate_shortcuts(sc) ==
    IF sc.t # "dict"
    THEN Raise("TypeError", "not a mapping",
               "Shortcut definition must be a dictionary or mapping, got "
               \o TypeOf(sc) \o ".")
    ELSE LET r == ValidateItems(sc.v) IN
         IF Raised(r) THEN r ELSE Return(sc)

----------------------------------------------------------------------------
(* Calls of validate_shortcuts, and of _expand with the validated table *)

\* what a table can hold for a key before it is validated: the expansions of
\* the validated tables, a list of one item, a table that is no pattern, and
\* what the validation is there to reject
RawExpansions ==
    Expansions
    \cup {List(<<Str("b")>>), Dict(<<Item("foo", Str("bar"))>>)}
    \cup {List(<<>>),
          List([i \in 1..(MaxExpansionLen + 1) |-> Str("QA")]),
          PyInt(1), PyFloat(1), PyNone}

\* what the settings can hold for the shortcuts: a table of up to two keys, or
\* something that is no table
RawShortcutData ==
    {Dict(<<>>)}
    \cup {Dict(<<Item(k, x)>>) : k \in ShortcutKeys, x \in RawExpansions}
    \cup {Dict(<<Item("a", x), Item("b", y)>>) : x \in RawExpansions, y \in RawExpansions}
    \cup {List(<<>>), List(<<Str("a"), Str("b")>>), Str("a"), PyInt(1), PyFloat(1), PyNone}

InitValidate ==
    /\ shortcuts \in RawShortcutData
    /\ validated = NotCalled
    /\ expanded = [key |-> Str(""), out |-> NotCalled]
    /\ projects = <<>>
    /\ services = <<>>
    /\ activity = <<>>
    /\ spec = NotCalled
    /\ calls = <<>>
    /\ entries = <<>>
    /\ pattern_data = Str("")
    /\ pattern = NotCalled
    /\ matches = <<>>
    /\ found = NotCalled
    /\ time_entries = <<>>
    /\ entries_today = <<>>
    /\ history = <<>>
    /\ NothingStarted
    /\ NothingTraced
    /\ NothingBuilt
    /\ NothingReported

\* validated = validate_shortcuts(shortcuts)
Validate ==
    /\ validated = NotCalled
    /\ validated' = validate_shortcuts(shortcuts)
    /\ UNCHANGED <<findVars, activityVars, entryVars, startVars, traceVars, menuVars,
                 statusVars>>

\* _expand(key, validated): the settings hold what validate_shortcuts returned
ExpandValidated ==
    /\ Returned(validated)
    /\ expanded.out = NotCalled
    /\ \E key \in Tokens \cup {QAStrict} :
          /\ expanded' = [key |-> key, out |-> _expand(key, Value(validated), <<>>)]
          /\ expand_calls' = ExpandCalls(<<key>>, Value(validated), <<>>).calls
    /\ UNCHANGED <<shortcuts, projects, services, activity, spec, calls,
                   findVars, entryVars, validateVars, startVars, menuVars, statusVars>>

NextValidate == Validate \/ ExpandValidated

SpecValidate == InitValidate /\ [][NextValidate]_vars

----------------------------------------------------------------------------
(* Properties of validate_shortcuts *)

\* the expansions the claim C16 says are accepted
Accepted(x) ==
    \/ x.t = "str"
    \/ x.t = "dict"
    \/ x.t = "list" /\ Len(x.v) >= 1 /\ Len(x.v) <= 3

\* the positions of the items of the table that are not accepted
Offending == {i \in 1..Len(shortcuts.v) : ~Accepted(shortcuts.v[i].v)}

\* C16: validate_shortcuts raises a TypeError for what is no mapping; it
\* returns a mapping whose expansions are all a str, a list of 1 to 3 items or
\* a dict; otherwise it raises for the first offending key, a ValueError when
\* the expansion is an empty or over-long list and a TypeError when it is of
\* another type, with a message that starts by naming the key.
C16_ValidateShortcuts ==
    (validated # NotCalled) =>
        IF shortcuts.t # "dict" THEN validated.exc = "TypeError"
        ELSE IF Offending = {} THEN validated = Return(shortcuts)
        ELSE LET k == CHOOSE i \in Offending : \A j \in Offending : i <= j
                 prefix == "The expansion for shortcut '" \o shortcuts.v[k].k
                           \o "' is invalid: "
             IN /\ validated.exc = IF shortcuts.v[k].v.t = "list" THEN "ValueError"
                                   ELSE "TypeError"
                /\ SubSeq(validated.msg, 1, Len(prefix)) = prefix
                /\ Len(validated.msg) > Len(prefix)

\* a table whose second key stands for a number was rejected with a TypeError
\* that names the key
C16_Witness ==
    /\ shortcuts = Dict(<<Item("a", List(<<Str("b"), Str("b")>>)), Item("b", PyInt(1))>>)
    /\ validated.exc = "TypeError"
    /\ validated.msg = "The expansion for shortcut 'b' is invalid: "
                        \o "Unsupported expansion type: <class 'int'>."

\* some key of the table leads back to itself
HasCycle == \E i \in 1..Len(shortcuts.v) : ~LeavesOf(Str(shortcuts.v[i].k)).ok

\* C17: a table that has a cycle and is otherwise well-shaped passes
\* validate_shortcuts; with a validated table, _expand raises the cycle error
\* for the keys from which a cycle can be reached and for no other key, and
\* returns the leaves below every other key.
C17_CyclesFoundOnlyByExpand ==
    /\ (validated # NotCalled /\ shortcuts.t = "dict" /\ Offending = {}) =>
           Returned(validated)
    /\ (Returned(validated) /\ expanded.out # NotCalled) =>
           /\ Raised(expanded.out) <=> ~LeavesOf(expanded.key).ok
           /\ Raised(expanded.out) =>
                  expanded.out.exc = "ValueError" /\ expanded.out.kind = "cycle"
           /\ LeavesOf(expanded.key).ok =>
                  expanded.out = Return(LeavesOf(expanded.key).leaves)

\* in a validated table with the cycle b -> b, the key a, which does not lead
\* to b, was expanded
C17_Witness ==
    /\ Returned(validated)
    /\ HasCycle
    /\ expanded.key = Str("a")
    /\ Has(shortcuts, "a")
    /\ Returned(expanded.out)
    /\ Len(Value(expanded.out)) = 3

----------------------------------------------------------------------------
(* Calls of _idempotent_entry against the server *)

MaxExisting == 2
MaxCalls == 2

\* the project and the service of an entry or of a spec
IdPairs == {<<None, None>>, <<1, 5>>, <<1, 6>>}

\* the entry at position i of the entries of today
ExistingEntries(i) ==
    {[id |-> i - 1, project_id |-> ids[1], service_id |-> ids[2], note |-> n] :
        ids \in IdPairs, n \in {"n", "n ", ""}}

ExistingLists ==
    UNION {{l \in [1..n -> UNION {ExistingEntries(i) : i \in 1..n}] :
               \A i \in 1..n : l[i] \in ExistingEntries(i)} : n \in 0..MaxExisting}

\* the specs to_time_entry_spec can return, the note as typed
EntrySpecs ==
    {[project_id |-> ids[1], service_id |-> ids[2], note |-> Str(n)] :
        ids \in IdPairs, n \in {"n", " n ", ""}}

InitEntry ==
    /\ time_entries \in ExistingLists
    /\ entries_today = <<>>
    /\ history = <<>>
    /\ entries = <<>>
    /\ pattern_data = Str("")
    /\ pattern = NotCalled
    /\ matches = <<>>
    /\ found = NotCalled
    /\ shortcuts = Dict(<<>>)
    /\ projects = <<>>
    /\ services = <<>>
    /\ expanded = [key |-> Str(""), out |-> NotCalled]
    /\ activity = <<>>
    /\ spec = NotCalled
    /\ calls = <<>>
    /\ NothingValidated
    /\ NothingStarted
    /\ NothingTraced
    /\ NothingBuilt
    /\ NothingReported

\* entries_today = today's entries of the server;
\* _idempotent_entry(entries_today, entry_spec, api)
IdempotentEntry ==
    /\ Len(history) < MaxCalls
    /\ \E entry_spec \in EntrySpecs :
          LET r == _idempotent_entry(time_entries, entry_spec, time_entries) IN
          /\ entries_today' = time_entries
          /\ time_entries' = r.server
          /\ history' = Append(history, [spec |-> entry_spec, entry |-> r.out,
                                         posts |-> r.posts])
    /\ UNCHANGED <<findVars, activityVars, validateVars, startVars, traceVars, menuVars,
                 statusVars>>

NextEntry == IdempotentEntry

SpecEntry == InitEntry /\ [][NextEntry]_vars

\* the key of the lookup: project, service and trimmed note
KeyOf(project_id, service_id, note) == <<project_id, service_id, strip(note)>>

LastCall == history[Len(history)]

\* the entries fetched for the last call that have the key of its spec
SameKey ==
    {i \in 1..Len(entries_today) :
        KeyOf(entries_today[i].project_id, entries_today[i].service_id,
              entries_today[i].note)
        = KeyOf(LastCall.spec.project_id, LastCall.spec.service_id,
                LastCall.spec.note.v)}

\* C9: when an entry of today has the project, service and trimmed note of
\* the spec, _idempotent_entry returns such an entry as it is and posts
\* nothing; otherwise it posts once, exactly the project, the service and the
\* trimmed note of the spec, and returns the entry the server answers with.
C9_LookupOrCreate ==
    (history # <<>>) =>
        /\ SameKey # {} =>
              /\ Returned(LastCall.entry)
              /\ \E i \in SameKey : Value(LastCall.entry) = entries_today[i]
              /\ LastCall.posts = <<>>
              /\ time_entries = entries_today
        /\ SameKey = {} =>
              /\ LastCall.posts =
                    <<[project_id |-> LastCall.spec.project_id,
                       service_id |-> LastCall.spec.service_id,
                       note |-> strip(LastCall.spec.note.v)]>>
              /\ Returned(LastCall.entry)
              /\ time_entries = Append(entries_today, Value(LastCall.entry))
              /\ Value(LastCall.entry).project_id = LastCall.spec.project_id
              /\ Value(LastCall.entry).service_id = LastCall.spec.service_id
              /\ Value(LastCall.entry).note = strip(LastCall.spec.note.v)
              /\ \A i \in 1..Len(entries_today) :
                    entries_today[i].id # Value(LastCall.entry).id

\* a spec typed with blanks around its note was created with the trimmed note
\* although an entry with the same note for another service existed
C9_Witness ==
    /\ Len(history) = 1
    /\ LastCall.spec.note = Str(" n ")
    /\ entries_today # <<>>
    /\ \E i \in 1..Len(entries_today) : entries_today[i].note = "n "
    /\ Len(LastCall.posts) = 1
    /\ Value(LastCall.entry).note = "n"

\* C10: two calls in a row with the same spec, the second one made with the
\* entries of the server after the first, return the same entry, and at most
\* one of them posts.
C10_Idempotent ==
    \A i \in 1..(Len(history) - 1) :
        (history[i].spec = history[i + 1].spec) =>
            /\ history[i].entry = history[i + 1].entry
            /\ Len(history[i].posts) + Len(history[i + 1].posts) <= 1

\* the first of two calls with the same spec created the entry, the second
\* found it
C10_Witness ==
    /\ Len(history) = 2
    /\ history[1].spec = history[2].spec
    /\ Len(history[1].posts) = 1
    /\ history[2].posts = <<>>
    /\ history[1].spec.note = Str(" n ")

----------------------------------------------------------------------------
(* cli.py: build_menu, _select_an_entry and the `start` command *)

\* the characters of a str
Chars(s) == [i \in 1..Len(s) |-> SubSeq(s, i, i)]

\* (a + b for a, b in combinations(key_characters, 2))
RECURSIVE Combinations(_)
Combinations(cs) ==
    IF Len(cs) < 2 THEN <<>>
    ELSE [i \in 1..(Len(cs) - 1) |-> cs[1] \o cs[i + 1]] \o Combinations(Tail(cs))

\* menu keys that begin with the doubled characters
MenuKeySeqDoubledFirst(key_characters) ==
    LET cs == Chars(key_characters) IN
    [i \in 1..Len(cs) |-> cs[i] \o cs[i]] \o cs \o Combinations(cs)

\* menu_keys = chain(key_characters, (k * 2 ...), (a + b ...))
MenuKeySeq(key_characters) ==
    LET cs == Chars(key_characters) IN
    cs \o [i \in 1..Len(cs) |-> cs[i] \o cs[i]] \o Combinations(cs)

\* the prompt lines f"{key}\t{entry['note']}\n" of the first n entries
RECURSIVE PromptLines(_, _, _)
PromptLines(keys, time_entries_, n) ==
    IF n = 0 THEN ""
    ELSE PromptLines(keys, time_entries_, n - 1)
         \o keys[n] \o "\t" \o time_entries_[n].note \o "\n"

\* build_menu(key_characters, time_entries): zip stops at the shorter of the
\* keys and the entries; default_key is the key of the last turn of the loop
build_menu(key_characters, time_entries_) ==
    LET keys == MenuKeySeq(key_characters)
        n == IF Len(keys) < Len(time_entries_) THEN Len(keys) ELSE Len(time_entries_)
    IN IF n = 0
       THEN Raise("UnboundLocalError", "default_key",
                  "local variable 'key' referenced before assignment")
       ELSE Return([prompt |-> PromptLines(keys, time_entries_, n)
                               \o "Select an entry please",
                    default_key |-> keys[n],
                    mapping |-> Dict([i \in 1..n |-> Item(keys[i], time_entries_[i])])])

\* keyed_entries[entered_key]: the last assignment to a key is the one kept
Keyed(mapping, key) ==
    mapping.v[Max({i \in 1..Len(mapping.v) : mapping.v[i].k = key})].v

\* the loop of _select_an_entry: click.prompt yields the line typed, or the
\* default for an empty line, and aborts when the input is exhausted
RECURSIVE Prompting(_, _)
Prompting(menu, lines) ==
    IF Len(lines) = 0 THEN Raise("Abort", "prompt", "")
    ELSE LET entered_key == IF lines[1] = "" THEN menu.default_key ELSE lines[1] IN
         IF Has(menu.mapping, entered_key)
         THEN Return(Keyed(menu.mapping, entered_key))
         ELSE Prompting(menu, Tail(lines))

_select_an_entry(menu_keys, entries_today_, lines) ==
    LET menu == build_menu(menu_keys, entries_today_) IN
    IF Raised(menu) THEN menu ELSE Prompting(Value(menu), lines)

\* a list in the order of decreasing updated_at
RECURSIVE sorted_descending(_)
sorted_descending(entries_) ==
    IF Len(entries_) = 0 THEN <<>>
    ELSE LET rest == sorted_descending(SubSeq(entries_, 1, Len(entries_) - 1))
             e == entries_[Len(entries_)]
             before == {i \in 1..Len(rest) : rest[i].updated_at >= e.updated_at}
             k == IF before = {} THEN 0 ELSE Max(before)
         IN SubSeq(rest, 1, k) \o <<e>> \o SubSeq(rest, k + 1, Len(rest))

\* sorted(entries_today, key=itemgetter("updated_at")) of entries that all
\* have the key: ascending, entries of equal key in their order of the list
RECURSIVE sorted_by_updated_at(_)
sorted_by_updated_at(entries_) ==
    IF Len(entries_) = 0 THEN <<>>
    ELSE LET rest == sorted_by_updated_at(SubSeq(entries_, 1, Len(entries_) - 1))
             e == entries_[Len(entries_)]
             before == {i \in 1..Len(rest) : rest[i].updated_at <= e.updated_at}
             k == IF before = {} THEN 0 ELSE Max(before)
         IN SubSeq(rest, 1, k) \o <<e>> \o SubSeq(rest, k + 1, Len(rest))

\* a branch without an activity that shows the menu whether or not -l is given
SelectExistingAtMenu(entries_today_, last_, lines, menu_keys) ==
    IF Len(entries_today_) = 0
    THEN Raise("SystemExit", "no entries",
               "No entries found for today, please specify an activity.")
    ELSE IF \E i \in 1..Len(entries_today_) : "updated_at" \notin DOMAIN entries_today_[i]
    THEN Raise("KeyError", "updated_at", "'updated_at'")
    ELSE _select_an_entry(menu_keys, sorted_by_updated_at(entries_today_), lines)

\* the branch of `start` without an activity: the entry to start the clock for
SelectExisting(entries_today_, last_, lines, menu_keys) ==
    IF Len(entries_today_) = 0
    THEN Raise("SystemExit", "no entries",
               "No entries found for today, please specify an activity.")
    ELSE IF \E i \in 1..Len(entries_today_) : "updated_at" \notin DOMAIN entries_today_[i]
    THEN Raise("KeyError", "updated_at", "'updated_at'")
    ELSE LET sorted == sorted_by_updated_at(entries_today_) IN
         IF last_ THEN Return(sorted[Len(sorted)])
         ELSE _select_an_entry(menu_keys, sorted, lines)

\* a request made of the server through settings.mite
Request(method, resource, id) == [method |-> method, resource |-> resource, id |-> id]

\* StopWatch.start(entry_id): patch tracker/{entry_id}
StopWatch_start(entry_id) == Request("patch", "tracker", entry_id)

\* FakeApi.patch: the tracker tracks the entry named in the resource
FakeApi_patch(request) == request.id

----------------------------------------------------------------------------
(* Invocations of `start` against the server *)

MaxToday == 2

\* settings.menu_keys
MenuKeys == "as"

\* settings.shortcuts
StartShortcuts ==
    Dict(<<Item("a", List(<<Str("QA"), QAStrict>>)),
           Item("q", QAStrict),
           Item("b", Str("b"))>>)

\* the entry at position i of the entries of today, as the server reports it
TodayEntries(i) ==
    {[id |-> i - 1, project_id |-> ids[1], service_id |-> ids[2], note |-> n,
      updated_at |-> u] :
        ids \in {<<None, None>>, <<2, 5>>}, n \in {"n", ""}, u \in 1..2}

TodayLists ==
    UNION {{l \in [1..n -> UNION {TodayEntries(i) : i \in 1..n}] :
               \A i \in 1..n : l[i] \in TodayEntries(i)} : n \in 0..MaxToday}

\* what the user can type as one item of the activity of `start`
StartTokens == {Str("a"), Str("q"), Str(""), Str(" n ")}

\* the activities of up to three items, and some that are invalid
StartActivities ==
    (UNION {[1..n -> StartTokens] : n \in 1..3})
    \cup {<<Str("b")>>, <<Str("QA"), Str("QA")>>,
          <<Str("a"), Str("a")>>, <<Str("a"), Str(" n "), Str(""), Str("")>>}

\* the command lines: an activity, with -l as well when it is short, or no
\* activity and either -l or what is typed at the prompts
CommandLines ==
    {[activity |-> a, last |-> FALSE, stdin |-> <<>>] : a \in StartActivities}
    \cup {[activity |-> a, last |-> TRUE, stdin |-> <<>>] :
             a \in {x \in StartActivities : Len(x) <= 2}}
    \cup {[activity |-> <<>>, last |-> TRUE, stdin |-> <<>>]}
    \cup {[activity |-> <<>>, last |-> FALSE, stdin |-> lines] :
             lines \in {<<>>, <<"">>, <<"a">>, <<"s">>, <<"q", "a">>, <<"q">>, <<"aa">>}}

InitStart ==
    /\ time_entries \in TodayLists
    /\ tracker \in {None} \cup {time_entries[i].id : i \in 1..Len(time_entries)}
    /\ tracking_before = None
    /\ shortcuts = StartShortcuts
    /\ projects = SomeProjects
    /\ services = SomeServices
    /\ pc = "idle"
    /\ last = FALSE
    /\ stdin = <<>>
    /\ start_entry = NotCalled
    /\ exit_code = None
    /\ requests = <<>>
    /\ activity = <<>>
    /\ spec = NotCalled
    /\ calls = <<>>
    /\ expanded = [key |-> Str(""), out |-> NotCalled]
    /\ entries_today = <<>>
    /\ history = <<>>
    /\ entries = <<>>
    /\ pattern_data = Str("")
    /\ pattern = NotCalled
    /\ matches = <<>>
    /\ found = NotCalled
    /\ NothingValidated
    /\ NothingTraced
    /\ NothingBuilt
    /\ NothingReported

\* start(settings, last, activity) is invoked:
\*     entries_today = [e["time_entry"] for e in settings.mite.get("daily")]
StartFetch ==
    /\ pc = "idle"
    /\ \E cmd \in CommandLines :
          /\ activity' = cmd.activity
          /\ last' = cmd.last
          /\ stdin' = cmd.stdin
    /\ entries_today' = time_entries
    /\ requests' = <<Request("get", "daily", None)>>
    /\ tracking_before' = tracker
    /\ pc' = "fetched"
    /\ UNCHANGED <<shortcuts, projects, services, expanded, spec, calls,
                   time_entries, history, tracker, start_entry, exit_code,
                   findVars, validateVars, traceVars, menuVars,
                 statusVars>>

\* a resolution whose failure ends the command with sys.exit() in place of
\* sys.exit(1)
StartResolveExitZero ==
    /\ pc = "fetched"
    /\ activity # <<>>
    /\ LET r == to_time_entry_spec(activity, shortcuts, projects, services) IN
       /\ spec' = r.out
       /\ calls' = r.calls
       /\ IF Raised(r.out)
          THEN pc' = "exited" /\ exit_code' = 0
          ELSE pc' = "resolved" /\ exit_code' = exit_code
    /\ requests' = requests \o <<Request("get", "projects", None),
                                 Request("get", "services", None)>>
    /\ UNCHANGED <<shortcuts, projects, services, expanded, activity,
                   entryVars, tracker, tracking_before, last, stdin, start_entry,
                   findVars, validateVars, traceVars, menuVars,
                 statusVars>>

\* if activity: the projects and the services are fetched and
\*     spec = to_time_entry_spec(activity, settings.shortcuts, projects, services)
\* a ValueError is reported and ends the command with status 1, as does
\* any other exception, which nothing catches
StartResolve ==
    /\ pc = "fetched"
    /\ activity # <<>>
    /\ LET r == to_time_entry_spec(activity, shortcuts, projects, services) IN
       /\ spec' = r.out
       /\ calls' = r.calls
       /\ IF Raised(r.out)
          THEN pc' = "exited" /\ exit_code' = 1
          ELSE pc' = "resolved" /\ exit_code' = exit_code
    /\ requests' = requests \o <<Request("get", "projects", None),
                                 Request("get", "services", None)>>
    /\ UNCHANGED <<shortcuts, projects, services, expanded, activity,
                   entryVars, tracker, tracking_before, last, stdin, start_entry,
                   findVars, validateVars, traceVars, menuVars,
                 statusVars>>

\* entry = _idempotent_entry(entries_today, spec, settings.mite.api)
StartEntry ==
    /\ pc = "resolved"
    /\ LET r == _idempotent_entry(entries_today, Value(spec), time_entries) IN
       /\ start_entry' = r.out
       /\ time_entries' = r.server
       /\ requests' = requests \o [i \in 1..Len(r.posts) |->
                                      Request("post", "time_entries", None)]
       /\ IF Raised(r.out)
          THEN pc' = "exited" /\ exit_code' = 1
          ELSE pc' = "selected" /\ exit_code' = exit_code
    /\ UNCHANGED <<activityVars, entries_today, history, tracker,
                   tracking_before, last, stdin,
                   findVars, validateVars, traceVars, menuVars,
                 statusVars>>

\* else: the command ends with status 0 when there are no entries today;
\* otherwise the entries are sorted and the last one or the one chosen from
\* the menu is taken; a prompt that finds no more input aborts with status 1
StartSelect ==
    /\ pc = "fetched"
    /\ activity = <<>>
    /\ LET r == SelectExisting(entries_today, last, stdin, MenuKeys) IN
       /\ start_entry' = r
       /\ IF Raised(r)
          THEN /\ pc' = "exited"
               /\ exit_code' = IF r.exc = "SystemExit" THEN 0 ELSE 1
          ELSE pc' = "selected" /\ exit_code' = exit_code
    /\ UNCHANGED <<activityVars, entryVars, tracker, tracking_before, last,
                   stdin, requests,
                   findVars, validateVars, traceVars, menuVars,
                 statusVars>>

\* settings.mite.stopwatch.start(entry["id"]); the command ends with status 0
StartTracker ==
    /\ pc = "selected"
    /\ LET request == StopWatch_start(Value(start_entry).id) IN
       /\ tracker' = FakeApi_patch(request)
       /\ requests' = Append(requests, request)
    /\ pc' = "exited"
    /\ exit_code' = 0
    /\ UNCHANGED <<activityVars, entryVars, tracking_before, last, stdin,
                   start_entry,
                   findVars, validateVars, traceVars, menuVars,
                 statusVars>>

NextStart == StartFetch \/ StartResolve \/ StartEntry \/ StartSelect \/ StartTracker

SpecStart == InitStart /\ [][NextStart]_vars

----------------------------------------------------------------------------
(* Properties of `start` *)

\* the key of the spec that to_time_entry_spec returned
SpecKey ==
    KeyOf(Value(spec).project_id, Value(spec).service_id, Value(spec).note.v)

\* the entries fetched by `start` that have a given key
TodayWithKey(key) ==
    {i \in 1..Len(entries_today) :
        KeyOf(entries_today[i].project_id, entries_today[i].service_id,
              entries_today[i].note) = key}

\* `start` has started the tracker and ended
Started ==
    /\ pc = "exited"
    /\ exit_code = 0
    /\ requests # <<>>
    /\ requests[Len(requests)].method = "patch"

\* the entry appended to the entries of the server since they were fetched
Created == time_entries[Len(time_entries)]

\* C11 as the specification states it: the note of the spec returned by
\* to_time_entry_spec has no whitespace around it.
C11_SpecNoteIsTrimmed ==
    (Returned(spec) /\ Value(spec).note.t = "str") =>
        Value(spec).note.v = strip(Value(spec).note.v)

\* C11, amended: to_time_entry_spec returns the note as it was typed; `start`
\* trims it when it resolves the entry: an entry of today with the project,
\* the service and the trimmed note of the spec is reused and nothing is
\* created, and otherwise the entry created has the trimmed note.
C11_NoteTrimmedByStart ==
    /\ (Returned(spec) /\ Len(ActivityLeaves.leaves) = 3) =>
           Value(spec).note = ActivityLeaves.leaves[3]
    /\ (Started /\ activity # <<>>) =>
           /\ Value(spec).note.t = "str"
           /\ IF TodayWithKey(SpecKey) # {}
              THEN /\ time_entries = entries_today
                   /\ \E i \in TodayWithKey(SpecKey) : tracker = entries_today[i].id
              ELSE /\ time_entries = Append(entries_today, Created)
                   /\ Created.note = strip(Value(spec).note.v)
                   /\ Created.project_id = Value(spec).project_id
                   /\ Created.service_id = Value(spec).service_id
                   /\ tracker = Created.id

\* `start a " n "` reused the entry of today whose note is "n"
C11_Witness ==
    /\ Started
    /\ activity = <<Str("a"), Str(" n ")>>
    /\ Value(spec).note = Str(" n ")
    /\ Len(entries_today) = 2
    /\ entries_today[2].note = "n" /\ entries_today[2].project_id = 2
    /\ entries_today[1].note = ""
    /\ time_entries = entries_today
    /\ tracker = 1

\* the entries of today that no entry of today was updated after
MostRecent ==
    {i \in 1..Len(entries_today) :
        \A j \in 1..Len(entries_today) :
            entries_today[j].updated_at <= entries_today[i].updated_at}

\* C19: when `start` ends with the tracker started for an entry that was
\* there today (the entry with the key of the activity, the most recent
\* entry for -l, an entry of the menu otherwise), the tracker tracks the id
\* of that entry, whatever it tracked before, and the entries of the server
\* are the ones that were fetched.
C19_StartExistingEntry ==
    Started =>
        /\ (activity # <<>> /\ TodayWithKey(SpecKey) # {}) =>
               /\ time_entries = entries_today
               /\ \E i \in TodayWithKey(SpecKey) : tracker = entries_today[i].id
        /\ activity = <<>> =>
               /\ time_entries = entries_today
               /\ \E i \in 1..Len(entries_today) : tracker = entries_today[i].id
               /\ last => \E i \in MostRecent : tracker = entries_today[i].id

\* the tracker ran for the first entry; `start -l` moved it to the second,
\* which was updated last, and the entries are as they were
C19_Witness ==
    /\ Started
    /\ activity = <<>>
    /\ last
    /\ Len(entries_today) = 2
    /\ entries_today[1].updated_at < entries_today[2].updated_at
    /\ tracking_before = 0
    /\ tracker = 1
    /\ time_entries = entries_today

\* the activity of `start` was resolved to a spec that no entry of today has
\* the key of
IsNew ==
    /\ activity # <<>>
    /\ Returned(spec)
    /\ Value(spec).note.t = "str"
    /\ TodayWithKey(SpecKey) = {}

\* C20: when the activity matches no entry of today, `start` asks for the
\* entries, the projects and the services, then posts one time entry, then
\* patches the tracker with the id of the entry the server created: until
\* the post the entries of the server are the fetched ones, until the patch
\* the tracker is what it was, and in the end it tracks the new id.
C20_NewEntryPipeline ==
    LET fetches == <<Request("get", "daily", None), Request("get", "projects", None),
                     Request("get", "services", None)>>
        post == Request("post", "time_entries", None)
        created == /\ time_entries = Append(entries_today, Created)
                   /\ \A i \in 1..Len(entries_today) :
                          entries_today[i].id # Created.id
    IN IsNew =>
        /\ pc \in {"resolved", "selected", "exited"}
        /\ pc = "resolved" =>
               /\ requests = fetches
               /\ time_entries = entries_today
               /\ tracker = tracking_before
        /\ pc = "selected" =>
               /\ requests = fetches \o <<post>>
               /\ created
               /\ tracker = tracking_before
        /\ pc = "exited" =>
               /\ exit_code = 0
               /\ requests = fetches \o <<post, Request("patch", "tracker", Created.id)>>
               /\ created
               /\ tracker = Created.id

\* the tracker ran for the first of two entries; `start` created a third
\* entry and the tracker runs for it
C20_Witness ==
    /\ pc = "exited"
    /\ IsNew
    /\ Len(entries_today) = 2
    /\ tracking_before = 0
    /\ Len(time_entries) = 3
    /\ tracker = 2

----------------------------------------------------------------------------
(* Properties of the recursion of _expand *)

\* the items that a key of the table stands for
ExpansionsOf(key) ==
    IF key.t = "dict" \/ ~Has(shortcuts, key.v) THEN <<>>
    ELSE LET x == Get(shortcuts, key.v) IN IF x.t = "list" THEN x.v ELSE <<x>>

\* the call that made call i of expand_calls: the latest earlier call that
\* is one level higher
Caller(i) ==
    LET higher == {j \in 1..(i - 1) : Len(expand_calls[j].breadcrumbs) + 1
                                         = Len(expand_calls[i].breadcrumbs)}
    IN CHOOSE j \in higher : \A k \in higher : k <= j

\* C26: _expand terminates for every table and key: it returns a list of
\* leaves (dicts and strings that are no key of the table) or raises the
\* cycle error, and no call of the recursion is nested deeper than the
\* number of keys of the table plus one.
C26_ExpandTerminates ==
    (expanded.out # NotCalled) =>
        /\ expand_calls # <<>>
        /\ \/ /\ Returned(expanded.out)
              /\ \A i \in 1..Len(Value(expanded.out)) :
                     ExpansionsOf(Value(expanded.out)[i]) = <<>>
           \/ Raised(expanded.out) /\ expanded.out.kind = "cycle"
        /\ \A i \in 1..Len(expand_calls) :
               Len(expand_calls[i].breadcrumbs) + 1 <= Len(shortcuts.v) + 1

\* a table of two keys whose expansion reaches the third level and raises there
C26_Witness ==
    /\ Len(shortcuts.v) = 2
    /\ Raised(expanded.out)
    /\ expanded.out.kind = "cycle"
    /\ \E i \in 1..Len(expand_calls) : Len(expand_calls[i].breadcrumbs) = 2

\* C27: the breadcrumbs of every call of the recursion are the keys of its
\* callers, outermost first, so a call made after a sibling returned gets
\* the same breadcrumbs as the sibling; the cycle error is raised exactly
\* when a call gets a key that is among its breadcrumbs, and that call is
\* the last one; a key that occurs under two siblings, or twice in one
\* list, is expanded both times; to_time_entry_spec raises the cycle error
\* only when the expansion of one of the tokens by itself revisits a key.
C27_CycleCheckLooksAtAncestors ==
    /\ (expanded.out # NotCalled) =>
        /\ expand_calls[1] = ExpandCall(expanded.key, <<>>)
        /\ \A i \in 2..Len(expand_calls) :
               /\ expand_calls[i].breadcrumbs # <<>>
               /\ expand_calls[i].breadcrumbs =
                     expand_calls[Caller(i)].breadcrumbs \o <<expand_calls[Caller(i)].key>>
               /\ InList(expand_calls[i].key, ExpansionsOf(expand_calls[Caller(i)].key))
        /\ \A i \in 1..Len(expand_calls) :
               InList(expand_calls[i].key, expand_calls[i].breadcrumbs) =>
                   i = Len(expand_calls)
        /\ (Raised(expanded.out) /\ expanded.out.kind = "cycle") <=>
               InList(expand_calls[Len(expand_calls)].key,
                      expand_calls[Len(expand_calls)].breadcrumbs)
    /\ (Raised(spec) /\ spec.kind = "cycle") => ~ActivityLeaves.ok

\* a key of the table expanded twice below one key, and no cycle error
C27_Witness ==
    /\ Returned(expanded.out)
    /\ \E i, j \in 1..Len(expand_calls) :
           /\ i < j
           /\ expand_calls[i].key = expand_calls[j].key
           /\ expand_calls[i].breadcrumbs = expand_calls[j].breadcrumbs
           /\ expand_calls[i].breadcrumbs # <<>>
           /\ ExpansionsOf(expand_calls[i].key) # <<>>

----------------------------------------------------------------------------
(* Properties of find_unique on projects without a customer *)

\* the projects of the list that have no customer: no key or the value None
WithoutCustomer == {i \in 1..Len(entries) : entries[i].customer_name \in {Absent, PyNone}}

\* C30: when some project of the list has no customer, find_unique with a
\* pattern of a project and a client part returns a project or raises the
\* no-match or the ambiguous-match error, and fails in no other way.
C30_CustomerlessProjectsDoNotMatch ==
    (found # NotCalled /\ IsCompound(pattern_data) /\ WithoutCustomer # {}) =>
        \/ Returned(found)
        \/ found.exc = "ValueError" /\ found.kind \in {"no match", "ambiguous"}

----------------------------------------------------------------------------
(* Properties of the note of a time entry specification *)

\* C29: every specification that to_time_entry_spec returns has a str as
\* note: a dict that a shortcut stands for is never the note of the
\* specification and never reaches _idempotent_entry as a note.
C29_NoteIsString ==
    /\ Returned(spec) => Value(spec).note.t = "str"
    /\ (start_entry # NotCalled /\ activity # <<>>) => Value(spec).note.t = "str"

----------------------------------------------------------------------------
(* Properties of `start` when the activity cannot be resolved *)

\* the requests of the invocation that change the server
Mutating == {i \in 1..Len(requests) : requests[i].method # "get"}

\* to_time_entry_spec raised one of its errors
ResolutionFailed ==
    /\ activity # <<>>
    /\ Raised(spec)
    /\ spec.exc = "ValueError"
    /\ spec.kind \in {"too long", "shape", "cycle", "no match", "ambiguous"}

\* C21: when to_time_entry_spec raises (too many tokens, a wrong number of
\* values, a cycle, no match, an ambiguous match), `start` exits with
\* status 1 and has sent only get requests: the entries of the server and
\* its tracker are what they were.
C21_FailedResolutionMutatesNothing ==
    ResolutionFailed =>
        /\ pc = "exited"
        /\ exit_code = 1
        /\ Mutating = {}
        /\ time_entries = entries_today
        /\ tracker = tracking_before
        /\ start_entry = NotCalled

\* an ambiguous service while the tracker runs for the second of two entries
C21_Witness ==
    /\ ResolutionFailed
    /\ spec.kind = "ambiguous"
    /\ Len(time_entries) = 2
    /\ tracking_before = 1
    /\ tracker = 1

----------------------------------------------------------------------------
(* Properties of `start -l` and `resume` *)

\* the requests of a `start` that fetched the entries and started the tracker
FetchThenStart(id) == <<Request("get", "daily", None), Request("patch", "tracker", id)>>

\* C23: without an activity, `start -l` (which is what `resume` invokes)
\* starts the tracker for an entry of today that none was updated after, and
\* asks for nothing at a prompt; with an activity, -l changes nothing: the
\* tracker is started for the entry with the key of the activity, reused or
\* created; with no entries today and no activity the command exits with
\* status 0 after fetching the entries, the tracker as it was.
C23_LastSkipsTheMenu ==
    /\ (pc = "exited" /\ activity = <<>> /\ last /\ entries_today # <<>>) =>
           /\ exit_code = 0
           /\ stdin = <<>>
           /\ time_entries = entries_today
           /\ \E i \in MostRecent :
                  /\ tracker = entries_today[i].id
                  /\ requests = FetchThenStart(entries_today[i].id)
    /\ (pc = "exited" /\ activity # <<>> /\ last /\ Returned(start_entry)) =>
           /\ exit_code = 0
           /\ IF TodayWithKey(SpecKey) # {}
              THEN /\ time_entries = entries_today
                   /\ \E i \in TodayWithKey(SpecKey) : tracker = entries_today[i].id
              ELSE /\ time_entries = Append(entries_today, Created)
                   /\ KeyOf(Created.project_id, Created.service_id, Created.note) = SpecKey
                   /\ tracker = Created.id
    /\ (pc = "exited" /\ activity = <<>> /\ entries_today = <<>>) =>
           /\ exit_code = 0
           /\ requests = <<Request("get", "daily", None)>>
           /\ time_entries = <<>>
           /\ tracker = tracking_before

\* `start -l` moved the tracker from the second entry to the first, which
\* was updated last
C23_Witness ==
    /\ pc = "exited"
    /\ activity = <<>>
    /\ last
    /\ Len(entries_today) = 2
    /\ entries_today[1].updated_at > entries_today[2].updated_at
    /\ tracking_before = 1
    /\ tracker = 0

\* `start -l a` started the tracker for a new entry although an entry of
\* today could have been resumed
C23_WitnessActivity ==
    /\ pc = "exited"
    /\ activity = <<Str("a")>>
    /\ last
    /\ Len(entries_today) = 1
    /\ Len(time_entries) = 2
    /\ tracker = 1

----------------------------------------------------------------------------
(* `stop`, and sessions of `start <activity>` and `stop` against one server *)

\* StopWatch.tracking_time_entry(): the id under tracker["tracking_time_entry"]
\* of the response to get tracker, None when the tracker is empty
StopWatch_tracking_time_entry(tracker_) == tracker_

\* StopWatch.stop(entry_id): delete tracker/{entry_id}
StopWatch_stop(entry_id) == Request("delete", "tracker", entry_id)

\* FakeApi.delete of the tracker: mite_server["tracker"] = {"tracker": {}}
FakeApi_delete(request) == None

\* a stop that deletes the tracker without looking at what is tracked
stop_unconditionally(tracker_) ==
    LET request == StopWatch_stop(StopWatch_tracking_time_entry(tracker_)) IN
    [requests |-> <<Request("get", "tracker", None), request>>,
     tracker |-> FakeApi_delete(request),
     exit_code |-> 0]

\* stop(settings): the requests it makes, the tracker of the server after it
\* and its exit status (sys.exit() when nothing is tracked)
stop(tracker_) ==
    LET tracked_entry == StopWatch_tracking_time_entry(tracker_) IN
    IF tracked_entry = None
    THEN [requests |-> <<Request("get", "tracker", None)>>,
          tracker |-> tracker_,
          exit_code |-> 0]
    ELSE LET request == StopWatch_stop(tracked_entry) IN
         [requests |-> <<Request("get", "tracker", None), request>>,
          tracker |-> FakeApi_delete(request),
          exit_code |-> 0]

\* the requests of `start` before it resolves the activity
StartGets ==
    <<Request("get", "daily", None), Request("get", "projects", None),
      Request("get", "services", None)>>

\* the end of `start`: settings.mite.stopwatch.start(entry["id"]), unless
\* _idempotent_entry raised; r is what to_time_entry_spec gave, e what
\* _idempotent_entry gave and posts the requests sent before
StartTrackerOf(tracker_, r, e, posts) ==
    IF Raised(e.out)
    THEN [spec |-> r.out, calls |-> r.calls, entry |-> e.out, requests |-> posts,
          time_entries |-> e.server, tracker |-> tracker_, exit_code |-> 1]
    ELSE [spec |-> r.out, calls |-> r.calls, entry |-> e.out,
          requests |-> Append(posts, StopWatch_start(Value(e.out).id)),
          time_entries |-> e.server,
          tracker |-> FakeApi_patch(StopWatch_start(Value(e.out).id)),
          exit_code |-> 0]

\* `start` after to_time_entry_spec: sys.exit(1) on its ValueError, otherwise
\* entry = _idempotent_entry(entries_today, spec, settings.mite.api)
StartEntryOf(entries_today_, server, tracker_, r) ==
    IF Raised(r.out)
    THEN [spec |-> r.out, calls |-> r.calls, entry |-> NotCalled, requests |-> StartGets,
          time_entries |-> server, tracker |-> tracker_, exit_code |-> 1]
    ELSE StartTrackerOf(tracker_, r, _idempotent_entry(entries_today_, Value(r.out), server),
                        StartGets \o [i \in 1..Len(_idempotent_entry(entries_today_,
                                                       Value(r.out), server).posts) |->
                                         Request("post", "time_entries", None)])

\* start(settings, last, activity) with an activity, from the fetch of the
\* entries to the exit: the outcomes of to_time_entry_spec and
\* _idempotent_entry, the requests made, the exit status, and the entries
\* and the tracker of the server after it
start(server, tracker_, activity_) ==
    StartEntryOf(server, server, tracker_,
                 to_time_entry_spec(activity_, shortcuts, projects, services))

MaxSession == 4

\* the entry at position i of the entries of today at the start of a session;
\* the server keeps a note as it was entered
SessionEntries(i) ==
    {[id |-> i - 1, project_id |-> ids[1], service_id |-> ids[2], note |-> n,
      updated_at |-> 1] :
        ids \in {<<None, None>>, <<2, 5>>}, n \in {"n", " n ", ""}}

\* the entries of today have pairwise distinct keys
DistinctKeys(entries_) ==
    \A i, j \in 1..Len(entries_) :
        KeyOf(entries_[i].project_id, entries_[i].service_id, entries_[i].note)
            = KeyOf(entries_[j].project_id, entries_[j].service_id, entries_[j].note)
        => i = j

SessionLists ==
    {l \in UNION {[1..n -> UNION {SessionEntries(i) : i \in 1..n}] : n \in 0..2} :
        /\ \A i \in 1..Len(l) : l[i] \in SessionEntries(i)
        /\ DistinctKeys(l)}

\* the activities of the session: five that resolve, to five keys, one
\* with a cycle and one with a dict as note
SessionActivities ==
    {<<Str("a")>>, <<Str("a"), Str(" n ")>>, <<Str(""), Str(""), Str(" n ")>>,
     <<Str(""), Str("")>>, <<Str(""), Str("q")>>, <<Str("b")>>,
     <<Str(""), Str(""), Str("q")>>}

InitSession ==
    /\ time_entries \in SessionLists
    /\ tracker \in {None} \cup {time_entries[i].id : i \in 1..Len(time_entries)}
    /\ tracking_before = None
    /\ shortcuts = StartShortcuts
    /\ projects = SomeProjects
    /\ services = SomeServices
    /\ pc = "idle"
    /\ last = FALSE
    /\ stdin = <<>>
    /\ start_entry = NotCalled
    /\ exit_code = None
    /\ requests = <<>>
    /\ activity = <<>>
    /\ spec = NotCalled
    /\ calls = <<>>
    /\ expanded = [key |-> Str(""), out |-> NotCalled]
    /\ entries_today = <<>>
    /\ history = <<>>
    /\ entries = <<>>
    /\ pattern_data = Str("")
    /\ pattern = NotCalled
    /\ matches = <<>>
    /\ found = NotCalled
    /\ NothingValidated
    /\ NothingTraced
    /\ NothingBuilt
    /\ NothingReported

\* what an invocation of `start <activity>` leaves behind
SessionStarted(a, r) ==
    /\ activity' = a
    /\ entries_today' = time_entries
    /\ tracking_before' = tracker
    /\ spec' = r.spec
    /\ calls' = r.calls
    /\ start_entry' = r.entry
    /\ requests' = r.requests
    /\ time_entries' = r.time_entries
    /\ tracker' = r.tracker
    /\ exit_code' = r.exit_code

\* one invocation of `start <activity>`, from its first request to its exit
SessionStart ==
    /\ Len(time_entries) < MaxSession
    /\ \E a \in SessionActivities : SessionStarted(a, start(time_entries, tracker, a))
    /\ pc' = "exited"
    /\ UNCHANGED <<shortcuts, projects, services, expanded, history, last, stdin,
                   findVars, validateVars, traceVars, menuVars, statusVars>>

\* what an invocation of `stop` leaves behind
SessionStopped(r) ==
    /\ requests' = r.requests
    /\ tracker' = r.tracker
    /\ exit_code' = r.exit_code

\* one invocation of `stop`; the locals of an earlier `start` are gone
SessionStop ==
    /\ SessionStopped(stop(tracker))
    /\ tracking_before' = tracker
    /\ activity' = <<>>
    /\ entries_today' = <<>>
    /\ spec' = NotCalled
    /\ calls' = <<>>
    /\ start_entry' = NotCalled
    /\ pc' = "exited"
    /\ UNCHANGED <<shortcuts, projects, services, expanded, time_entries, history, last,
                   stdin, findVars, validateVars, traceVars, menuVars, statusVars>>

NextSession == SessionStart \/ SessionStop

SpecSession == InitSession /\ [][NextSession]_vars

----------------------------------------------------------------------------
(* Properties of `stop` and of sessions *)

\* the last command of the session was `stop`
LastWasStop ==
    /\ pc = "exited"
    /\ requests # <<>>
    /\ requests[1] = Request("get", "tracker", None)

\* the last command of the session was `start`
LastWasStart ==
    /\ pc = "exited"
    /\ requests # <<>>
    /\ requests[1] = Request("get", "daily", None)

\* C22: after `stop` the tracker is empty and the exit status is 0; when an
\* entry was tracked the command deleted the tracker of that entry, and when
\* none was it made no request but the get of the tracker; a `stop` after a
\* `stop` changes nothing on the server; `stop` never changes the entries
\* of today.
C22_StopEmptiesTracker ==
    /\ [](LastWasStop =>
            /\ tracker = None
            /\ exit_code = 0
            /\ requests = IF tracking_before = None
                          THEN <<Request("get", "tracker", None)>>
                          ELSE <<Request("get", "tracker", None),
                                 Request("delete", "tracker", tracking_before)>>)
    /\ [][LastWasStop' => time_entries' = time_entries]_vars
    /\ [][(LastWasStop /\ LastWasStop') =>
              /\ tracker' = tracker
              /\ requests' = <<Request("get", "tracker", None)>>]_vars

\* `stop` stopped the tracker of the first of two entries
C22_Witness ==
    /\ LastWasStop
    /\ tracking_before = 0
    /\ tracker = None
    /\ Len(time_entries) = 2
    /\ Len(requests) = 2

\* C28: in a session of `start <activity>` and `stop` commands that begins
\* with entries of pairwise distinct keys (project, service, trimmed note),
\* the keys of the entries of the server stay pairwise distinct; a `start`
\* leaves the entries as they were or appends one entry, and it appends one
\* only when no entry that it fetched has the key of the activity.
C28_KeysStayDistinct ==
    /\ DistinctKeys(time_entries)
    /\ LastWasStart =>
           \/ time_entries = entries_today
           \/ /\ time_entries = Append(entries_today, Created)
              /\ Returned(spec)
              /\ Value(spec).note.t = "str"
              /\ KeyOf(Created.project_id, Created.service_id, Created.note) = SpecKey
              /\ TodayWithKey(SpecKey) = {}

\* the server held the note " n "; `start "" "" " n "` reused that entry
\* after an earlier `start` had created another
C28_Witness ==
    /\ LastWasStart
    /\ activity = <<Str(""), Str(""), Str(" n ")>>
    /\ Len(entries_today) = 3
    /\ entries_today[1].note = " n "
    /\ entries_today[1].project_id = None
    /\ "updated_at" \notin DOMAIN entries_today[3]
    /\ time_entries = entries_today
    /\ tracker = 0

----------------------------------------------------------------------------
(* Calls of build_menu and _select_an_entry *)

MaxMenu == 3

\* strings of distinct key characters
KeyCharacters == {"a", "as", "asd"}

\* the non-empty lists that `start` hands to the menu: sorted by updated_at
MenuLists ==
    UNION {[1..n -> {"x", "y"}] : n \in 1..MaxMenu}

MenuEntry(i, note) ==
    [id |-> i - 1, project_id |-> None, service_id |-> None, note |-> note, updated_at |-> i]

\* what is typed at the prompts
MenuInputs == {<<"">>, <<"a">>, <<"zz", "">>}

InitMenu ==
    /\ key_chars \in KeyCharacters
    /\ \E notes \in MenuLists :
          menu_entries = [i \in 1..Len(notes) |-> MenuEntry(i, notes[i])]
    /\ built_menu = NotCalled
    /\ selected = NotCalled
    /\ stdin = <<>>
    /\ tracker = None
    /\ tracking_before = None
    /\ pc = "idle"
    /\ last = FALSE
    /\ start_entry = NotCalled
    /\ exit_code = None
    /\ requests = <<>>
    /\ shortcuts = Dict(<<>>)
    /\ projects = <<>>
    /\ services = <<>>
    /\ expanded = [key |-> Str(""), out |-> NotCalled]
    /\ activity = <<>>
    /\ spec = NotCalled
    /\ calls = <<>>
    /\ time_entries = <<>>
    /\ entries_today = <<>>
    /\ history = <<>>
    /\ entries = <<>>
    /\ pattern_data = Str("")
    /\ pattern = NotCalled
    /\ matches = <<>>
    /\ found = NotCalled
    /\ NothingValidated
    /\ NothingTraced
    /\ NothingReported

\* build_menu(key_characters, time_entries)
BuildMenu ==
    /\ built_menu = NotCalled
    /\ built_menu' = build_menu(key_chars, menu_entries)
    /\ UNCHANGED <<key_chars, menu_entries, selected, findVars, activityVars, entryVars,
                   validateVars, startVars, traceVars, statusVars>>

\* _select_an_entry(menu_keys, entries_today) with the lines typed
SelectAnEntry ==
    /\ selected = NotCalled
    /\ \E lines \in MenuInputs :
          /\ stdin' = lines
          /\ selected' = _select_an_entry(key_chars, menu_entries, lines)
    /\ UNCHANGED <<key_chars, menu_entries, built_menu, findVars, activityVars, entryVars,
                   validateVars, tracker, tracking_before, pc, last, start_entry,
                   exit_code, requests, traceVars, statusVars>>

NextMenu == BuildMenu \/ SelectAnEntry

SpecMenu == InitMenu /\ [][NextMenu]_vars

----------------------------------------------------------------------------
(* Properties of build_menu *)

\* the pairs of positions of key characters, the first before the second
PositionPairs == {p \in (1..Len(key_chars)) \X (1..Len(key_chars)) : p[1] < p[2]}

\* the place of a pair among the pairs, ordered by first then second position
PairRank(p) ==
    Cardinality({q \in PositionPairs : q[1] < p[1] \/ (q[1] = p[1] /\ q[2] <= p[2])})

\* how many keys the characters give: each alone, each doubled, each pair
NumberOfKeys == 2 * Len(key_chars) + Cardinality(PositionPairs)

\* the i-th key: the single characters, the doubled characters, the pairs
NthKey(i) ==
    LET n == Len(key_chars)
        c(k) == SubSeq(key_chars, k, k)
    IN IF i <= n THEN c(i)
       ELSE IF i <= 2 * n THEN c(i - n) \o c(i - n)
       ELSE LET p == CHOOSE q \in PositionPairs : PairRank(q) = i - 2 * n
            IN c(p[1]) \o c(p[2])

\* the entries of the menu: entry i has the i-th key
MenuHolds(count) ==
    LET m == Value(built_menu) IN
    /\ Len(m.mapping.v) = count
    /\ \A i \in 1..count : m.mapping.v[i] = Item(NthKey(i), menu_entries[i])
    /\ \A i, j \in 1..count : m.mapping.v[i].k = m.mapping.v[j].k => i = j

Keyed_count ==
    IF Len(menu_entries) <= NumberOfKeys THEN Len(menu_entries) ELSE NumberOfKeys

C24_WitnessAllKeyed ==
    /\ key_chars = "asd"
    /\ Len(menu_entries) = 3
    /\ Returned(built_menu)
    /\ Value(built_menu).default_key = "d"
    /\ stdin = <<"">>
    /\ selected = Return(menu_entries[3])

----------------------------------------------------------------------------
(* cli.py: report_status *)

\* Message(content, fmt_keywords): the keywords are "" for none, or the
\* colour and weight that click.secho is given
Message(content, fmt_keywords) == [content |-> content, fmt_keywords |-> fmt_keywords]

EmptyMessage == Message("", "")

\* MinuteCount.__str__: "{0}h{1}m".format(*divmod(self.value, 60))
MinuteCount_str(value) == ToString(value \div 60) \o "h" \o ToString(value % 60) \o "m"

\* an Entry (tracked FALSE) or a TrackedEntry (tracked TRUE)
Entry(tracked, note, minutes, created_at) ==
    [tracked |-> tracked, project_name |-> "p", service_name |-> "s", note |-> note,
     minutes |-> minutes, created_at |-> created_at]

_to_message(e) ==
    Message("Project: " \o e.project_name \o "\n"
            \o "Service: " \o e.service_name \o "\n"
            \o "Note: " \o e.note \o "\n"
            \o "Time spent: " \o MinuteCount_str(e.minutes), "")

\* an order that leaves the entries as they were fetched
_by_creation_time_unsorted(entries_) == entries_

\* _by_creation_time: sorted(entries, key=attrgetter("created_at")), which
\* keeps the entries of one creation time in their order
RECURSIVE _by_creation_time(_)
_by_creation_time(entries_) ==
    IF Len(entries_) = 0 THEN <<>>
    ELSE LET rest == _by_creation_time(SubSeq(entries_, 1, Len(entries_) - 1))
             e == entries_[Len(entries_)]
             before == {i \in 1..Len(rest) : rest[i].created_at <= e.created_at}
             k == IF before = {} THEN 0 ELSE Max(before)
         IN SubSeq(rest, 1, k) \o <<e>> \o SubSeq(rest, k + 1, Len(rest))

\* chain.from_iterable(zip(repeat(EmptyMessage), messages))
RECURSIVE Interleaved(_)
Interleaved(messages) ==
    IF Len(messages) = 0 THEN <<>>
    ELSE <<EmptyMessage, Head(messages)>> \o Interleaved(Tail(messages))

_full_summary(messages) ==
    IF Len(messages) > 0
    THEN <<Message("Entries today:", "")>> \o Interleaved(messages)
    ELSE <<Message("No entries today.", "")>>

_short_summary(messages) ==
    IF Len(messages) > 0
    THEN <<Message("Below is the entry being tracked.", "")>> \o messages
    ELSE <<>>

_short_interpret(e) == IF e.tracked THEN _to_message(e) ELSE EmptyMessage

_full_intrepret(e) ==
    IF e.tracked THEN Message(_to_message(e).content, "green bold") ELSE _to_message(e)

_update_header(e, hdr) ==
    IF e.tracked THEN Message("The clock is running!", "green bold") ELSE hdr

\* the loop of report_status over the ordered entries
RECURSIVE StatusLoop(_, _, _)
StatusLoop(ordered, full_, state) ==
    IF Len(ordered) = 0 THEN state
    ELSE StatusLoop(Tail(ordered), full_,
                    [header |-> _update_header(Head(ordered), state.header),
                     body |-> Append(state.body,
                                     IF full_ THEN _full_intrepret(Head(ordered))
                                     ELSE _short_interpret(Head(ordered))),
                     total_m |-> state.total_m + Head(ordered).minutes])

HasContent(m) == m.content # ""

\* the end of report_status: the summarized body padded, then the footer
StatusMessages(state, body) ==
    <<state.header>>
    \o (IF Len(body) > 0 THEN <<EmptyMessage>> \o body \o <<EmptyMessage>> ELSE body)
    \o <<Message("Total time clocked in today: " \o MinuteCount_str(state.total_m), "bold")>>

\* body = ctx.summarize([m for m in body if m.content])
StatusOf(full_, state) ==
    StatusMessages(state, IF full_ THEN _full_summary(SelectSeq(state.body, HasContent))
                          ELSE _short_summary(SelectSeq(state.body, HasContent)))

report_status(entries_, full_) ==
    Return(StatusOf(full_,
                    StatusLoop(IF full_ THEN _by_creation_time(entries_) ELSE entries_, full_,
                               [header |-> Message("The clock is not running", "red bold"),
                                body |-> <<>>,
                                total_m |-> 0])))

----------------------------------------------------------------------------
(* Calls of report_status *)

MaxStatus == 2

\* the entries parsed from the daily list; the note tells the entries apart
StatusEntries(i) ==
    {Entry(tracked, "e" \o ToString(i), minutes, created_at) :
        tracked \in BOOLEAN, minutes \in {5, 59, 61}, created_at \in 1..2}

StatusLists ==
    UNION {{l \in [1..n -> UNION {StatusEntries(i) : i \in 1..n}] :
               \A i \in 1..n : l[i] \in StatusEntries(i)} : n \in 0..MaxStatus}

InitStatus ==
    /\ status_entries \in StatusLists
    /\ full \in BOOLEAN
    /\ report = NotCalled
    /\ shortcuts = Dict(<<>>)
    /\ projects = <<>>
    /\ services = <<>>
    /\ expanded = [key |-> Str(""), out |-> NotCalled]
    /\ activity = <<>>
    /\ spec = NotCalled
    /\ calls = <<>>
    /\ time_entries = <<>>
    /\ entries_today = <<>>
    /\ history = <<>>
    /\ entries = <<>>
    /\ pattern_data = Str("")
    /\ pattern = NotCalled
    /\ matches = <<>>
    /\ found = NotCalled
    /\ NothingValidated
    /\ NothingStarted
    /\ NothingTraced
    /\ NothingBuilt

\* report_status(entries_today, full)
ReportStatus ==
    /\ report = NotCalled
    /\ report' = report_status(status_entries, full)
    /\ UNCHANGED <<status_entries, full, findVars, activityVars, entryVars, validateVars,
                   startVars, traceVars, menuVars>>

NextStatus == ReportStatus

SpecStatus == InitStatus /\ [][NextStatus]_vars

----------------------------------------------------------------------------
(* Properties of report_status *)

Tracked == {i \in 1..Len(status_entries) : status_entries[i].tracked}

RECURSIVE MinutesOf(_)
MinutesOf(is) ==
    IF is = {} THEN 0
    ELSE LET i == CHOOSE j \in is : TRUE IN status_entries[i].minutes + MinutesOf(is \ {i})

\* the entry that a message describes, 0 for a message that describes none
Described(m) ==
    LET is == {i \in 1..Len(status_entries) :
                  Contains(m.content, "Note: " \o status_entries[i].note \o "\n")}
    IN IF is = {} THEN 0 ELSE CHOOSE i \in is : TRUE

DescribesAnEntry(m) == Described(m) # 0

\* the entries that the report lists, in the order it lists them
Listed ==
    LET ms == SelectSeq(Value(report), DescribesAnEntry) IN
    [k \in 1..Len(ms) |-> Described(ms[k])]

\* C25: the header of the report says that the clock is running exactly
\* when an entry is tracked; the footer gives the sum of the minutes of all
\* the entries as hours and minutes below 60; the short report lists the
\* tracked entries and no others, the full report lists every entry once,
\* in the order of creation time.
C25_ReportStatus ==
    report # NotCalled =>
        LET messages == Value(report)
            total == MinutesOf(1..Len(status_entries))
        IN
        /\ messages[1].content = IF Tracked # {} THEN "The clock is running!"
                                  ELSE "The clock is not running"
        /\ \E h \in 0..total, m \in 0..59 :
               /\ 60 * h + m = total
               /\ messages[Len(messages)].content =
                     "Total time clocked in today: " \o ToString(h) \o "h"
                     \o ToString(m) \o "m"
        /\ \A k, l \in 1..Len(Listed) : Listed[k] = Listed[l] => k = l
        /\ ~full =>
               /\ {Listed[k] : k \in 1..Len(Listed)} = Tracked
               /\ \A k, l \in 1..Len(Listed) : k < l => Listed[k] < Listed[l]
        /\ full =>
               /\ {Listed[k] : k \in 1..Len(Listed)} = 1..Len(status_entries)
               /\ \A k, l \in 1..Len(Listed) :
                      k < l => status_entries[Listed[k]].created_at
                                  <= status_entries[Listed[l]].created_at

\* a full report of two entries, the second created first and tracked, with
\* more than an hour in total
C25_Witness ==
    /\ report # NotCalled
    /\ full
    /\ Len(status_entries) = 2
    /\ status_entries[2].created_at < status_entries[1].created_at
    /\ status_entries[2].tracked /\ ~status_entries[1].tracked
    /\ Listed = <<2, 1>>
    /\ Value(report)[1].content = "The clock is running!"
    /\ Value(report)[Len(Value(report))].content = "Total time clocked in today: 1h4m"

====
